---- MODULE Spec2Model ----
(***************************************************************************)
(* Session engine of ted (src-tauri): language-server sessions (lsp.rs),   *)
(* terminal sessions (terminal.rs), the debug-adapter session (dap.rs)     *)
(* and bounded background commands (background_cmd.rs).                     *)
(*                                                                         *)
(* Threads and callers are interleaved at the granularity of the mutexes   *)
(* and system calls of the source: a section of code that runs under the   *)
(* registry mutex without blocking is one step; a write_all is one step    *)
(* per accepted chunk.                                                     *)
(***************************************************************************)
EXTENDS Integers, Sequences, FiniteSets, TLC

(***************************************************************************)
(* Bounds of the model.                                                    *)
(***************************************************************************)
\* OS endpoints (child processes, ptys, sockets) created in one run.
MaxEndpoints == 2
\* send calls that reach a registered session in one run.
MaxSends == 2
\* Background commands spawned in one run.
MaxBgProcs == 2
\* Bytes the background commands, the shells and the debug adapters write
\* in one run (all streams together).
MaxOut == 2
\* Pieces (header lines, blank lines, bodies, log lines) of the script a
\* language server writes.
MaxPieces == 3

Tasks == {"t1", "t2"}
LspIds == {"ls1", "ls2"}
TermIds == {"tm1"}
DapIds == {"da1"}
Endpoints == 1..MaxEndpoints
BgProcs == 1..MaxBgProcs
Streams == {"stdout", "stderr"}
\* Bytes a command writes: an ASCII byte, the lead byte and the continuation
\* byte of a two-byte UTF-8 character.
OutBytes == {"a", "C3", "A9"}
ExitCodes == {0, 1}
\* Option<T>: None is <<>>, Some(x) is <<x>>.
None == <<>>
Some(x) == <<x>>

\* Payloads handed to the send operations (byte strings).
Payloads == {<<"a", "b">>}

VARIABLES
    \* ---- callers and OS endpoints
    taskPc,       \* position of each caller task inside a multi-step call
    taskCtx,      \* the locals of that call
    nextEp,       \* next fresh endpoint
    epKind,       \* "none" | "lsp" | "term" | "dap"
    epState,      \* "none" | "running" | "exited" | "killed"
    epCode,       \* exit status of an exited child
    epStream,     \* bytes the endpoint received on its write side, in order,
                  \* each paired with the send that wrote it
    epWriter,     \* holders of the Arc<Mutex<writer>> of the endpoint
    epThreads,    \* live threads started for the endpoint
    epSid,        \* the session id captured by those threads
    sendLog,      \* history: one record per send that reached a session
    \* ---- lsp.rs
    lspLock,      \* holders of LspState.sessions
    lspSessions,  \* the HashMap<String, LspSession>
    lspEvents,    \* events emitted to the application, in order
    \* ---- terminal.rs
    termLock,
    termSessions,
    \* ---- dap.rs
    dapLock,
    dapSession,
    \* ---- background_cmd.rs
    bgNext,       \* next fresh background command
    bgProc,       \* "none" | "running" | "exited" | "killed"
    bgCode,       \* exit status of an exited command
    bgPipe,       \* bytes written by the command and not yet read
    bgBuf,        \* the two Arc<Mutex<Vec<u8>>> of the command
    bgCall,       \* the exec_background_cmd call that spawned the command:
                  \* "none" | "racing" (in select!) | "completed" |
                  \* "timed_out" (the branch of select! it returned by)
    bgTimer,      \* whether the sleep(timeout) of that call had elapsed
                  \* when the call looked last
    bgKill,       \* children taken by kill_background_cmd, not yet killed
    bgProcesses,  \* the HashMap<String, BackgroundProcess>
    \* ---- the reader threads (lsp.rs, terminal.rs, dap.rs)
    epOut,        \* bytes the endpoint has written and no read has taken
    epOutAll,     \* history: every byte the endpoint has written
    rdBuf,        \* bytes taken by the underlying reads of a BufReader and
                  \* not yet consumed by read_line, read_exact or lines
    rdPc,         \* stdout reader of a language server: "header" | "body"
    rdLen,        \* its content_length
    rdEvents,     \* the events the reader threads have emitted, in order
    ptySize,      \* <<rows, cols>> of the pty of the endpoint
    \* ---- the command interface
    ret,          \* the value a command has just returned to its caller
    bgRet         \* the same for the background commands (a CmdResult)

taskVars == <<taskPc, taskCtx>>
coreVars == <<taskVars, nextEp, epKind, epState, epCode, epStream,
              epWriter, epThreads, epSid, sendLog>>
lspVars == <<lspLock, lspSessions, lspEvents>>
termVars == <<termLock, termSessions>>
dapVars == <<dapLock, dapSession>>
bgVars == <<bgNext, bgProc, bgCode, bgPipe, bgBuf, bgCall, bgTimer,
           bgKill, bgProcesses>>
rdVars == <<epOut, epOutAll, rdBuf, rdPc, rdLen, rdEvents, ptySize>>
vars == <<coreVars, lspVars, termVars, dapVars, bgVars, rdVars, ret, bgRet>>

(***************************************************************************)
(* Helpers.                                                                *)
(***************************************************************************)
EmptyMap == [x \in {} |-> x]
MapPut(m, k, v) == [x \in DOMAIN m \cup {k} |-> IF x = k THEN v ELSE m[x]]
MapRemove(m, k) == [x \in DOMAIN m \ {k} |-> m[x]]

\* std::sync::Mutex: lock() returns once nobody holds the mutex.
MutexFreeNever(holders) == TRUE
MutexFree(holders) == holders = {}

IdleCtx == [id |-> "", ep |-> 0, msg |-> <<>>, tag |-> 0, pos |-> 0]

\* Tag every byte of bs with the send that writes it.
Tagged(tag, bs) == [i \in 1..Len(bs) |-> <<tag, bs[i]>>]

Digit(d) == <<"0", "1", "2", "3", "4", "5", "6", "7", "8", "9">>[d + 1]
RECURSIVE Decimal(_)
\* format!("{}", n) of a usize.
Decimal(n) == IF n < 10 THEN <<Digit(n)>>
              ELSE Decimal(n \div 10) \o <<Digit(n % 10)>>
ContentLengthKey ==
    <<"C", "o", "n", "t", "e", "n", "t", "-", "L", "e", "n", "g", "t", "h",
      ":", " ">>
CRLF == <<"\r", "\n">>
\* A header that ends with the header line, without the blank line.
LspHeaderWithoutBlankLine(msg) ==
    ContentLengthKey \o Decimal(Len(msg)) \o CRLF
\* format!("Content-Length: {}\r\n\r\n", message.len())
LspHeader(msg) == ContentLengthKey \o Decimal(Len(msg)) \o CRLF \o CRLF

\* The outcomes of one write call on the write side of endpoint e: TRUE,
\* the bytes are taken; FALSE, the call fails. A pipe whose reader is gone
\* fails (EPIPE); a pty or a socket whose far end is gone may still take
\* the bytes or fail.
WriteOutcomes(e) ==
    IF epState[e] = "running" THEN {TRUE}
    ELSE IF epKind[e] = "lsp" THEN {FALSE}
    ELSE {TRUE, FALSE}

\* What a command can change, apart from the position of its own task.
World ==
    [nextEp |-> nextEp, epKind |-> epKind, epState |-> epState,
     epCode |-> epCode, epStream |-> epStream, epWriter |-> epWriter,
     epThreads |-> epThreads, epSid |-> epSid, sendLog |-> sendLog,
     lspLock |-> lspLock, lspSessions |-> lspSessions,
     lspEvents |-> lspEvents, termLock |-> termLock,
     termSessions |-> termSessions, dapLock |-> dapLock,
     dapSession |-> dapSession, rd |-> rdVars]
BgWorld ==
    [bgNext |-> bgNext, bgProc |-> bgProc, bgCode |-> bgCode,
     bgPipe |-> bgPipe, bgBuf |-> bgBuf, bgCall |-> bgCall,
     bgTimer |-> bgTimer, bgKill |-> bgKill, bgProcesses |-> bgProcesses]

\* A returned value: the command, its id argument, the result, and (pre)
\* the world as it was before the step that returned.
NoRet == [op |-> "", id |-> "", res |-> "", pre |-> <<>>]
NoBgRet == [op |-> "", pid |-> None, res |-> "", status |-> "",
            stdout |-> <<>>, stderr |-> <<>>, exit_code |-> None,
            pre |-> <<>>]

(***************************************************************************)
(* Initial state: the registries built in lib.rs run(), no endpoint.       *)
(***************************************************************************)
Init ==
    /\ taskPc = [t \in Tasks |-> "idle"]
    /\ taskCtx = [t \in Tasks |-> IdleCtx]
    /\ nextEp = 1
    /\ epKind = [e \in Endpoints |-> "none"]
    /\ epState = [e \in Endpoints |-> "none"]
    /\ epCode = [e \in Endpoints |-> None]
    /\ epStream = [e \in Endpoints |-> <<>>]
    /\ epWriter = [e \in Endpoints |-> {}]
    /\ epThreads = [e \in Endpoints |-> {}]
    /\ epSid = [e \in Endpoints |-> ""]
    /\ sendLog = <<>>
    /\ lspLock = {}
    /\ lspSessions = EmptyMap
    /\ lspEvents = <<>>
    /\ termLock = {}
    /\ termSessions = EmptyMap
    /\ dapLock = {}
    /\ dapSession = None
    /\ bgNext = 1
    /\ bgProc = [p \in BgProcs |-> "none"]
    /\ bgCode = [p \in BgProcs |-> None]
    /\ bgPipe = [p \in BgProcs |-> [s \in Streams |-> <<>>]]
    /\ bgBuf = [p \in BgProcs |-> [s \in Streams |-> <<>>]]
    /\ bgCall = [p \in BgProcs |-> "none"]
    /\ bgTimer = [p \in BgProcs |-> FALSE]
    /\ bgKill = {}
    /\ bgProcesses = EmptyMap
    /\ epOut = [e \in Endpoints |-> [s \in Streams |-> <<>>]]
    /\ epOutAll = [e \in Endpoints |-> [s \in Streams |-> <<>>]]
    /\ rdBuf = [e \in Endpoints |-> [s \in Streams |-> <<>>]]
    /\ rdPc = [e \in Endpoints |-> "header"]
    /\ rdLen = [e \in Endpoints |-> 0]
    /\ rdEvents = <<>>
    /\ ptySize = [e \in Endpoints |-> <<24, 80>>]
    /\ ret = NoRet
    /\ bgRet = NoBgRet

\* A command returns res to its caller. The value is handed over (Deliver)
\* before any other step is taken: the hand-over changes nothing else and
\* commutes with every step of every other thread.
Returns(op, id, res) ==
    /\ ret' = [op |-> op, id |-> id, res |-> res, pre |-> World]
    /\ UNCHANGED bgRet

\* No other step is taken between a command's return and its hand-over.
Quiet == ret = NoRet /\ bgRet = NoBgRet

Deliver ==
    /\ ~Quiet
    /\ ret' = NoRet
    /\ bgRet' = NoBgRet
    /\ UNCHANGED <<coreVars, lspVars, termVars, dapVars, bgVars, rdVars>>

(***************************************************************************)
(* lsp.rs                                                                  *)
(***************************************************************************)

\* lsp_start without the check of lines 46-48: a second child is spawned and
\* its session replaces the first.
LspStartOverwrites(id) ==
    /\ Quiet
    /\ MutexFree(lspLock)
    /\ id \in DOMAIN lspSessions
    /\ nextEp <= MaxEndpoints
    /\ LET e == nextEp IN
        /\ nextEp' = e + 1
        /\ epKind' = [epKind EXCEPT ![e] = "lsp"]
        /\ epState' = [epState EXCEPT ![e] = "running"]
        /\ lspSessions' = MapPut(lspSessions, id, [child |-> e, stdin |-> e])
        /\ epThreads' = [epThreads EXCEPT ![e] = {"stdout", "stderr", "exit"}]
        /\ epSid' = [epSid EXCEPT ![e] = id]
    /\ Returns("lsp_start", id, "Ok")
    /\ UNCHANGED <<taskVars, epCode, epStream, epWriter, sendLog,
                   lspLock, lspEvents, termVars, dapVars, bgVars, rdVars>>

\* lsp_start, lines 45-48: the id is taken.
LspStartExists(id) ==
    /\ Quiet
    /\ MutexFree(lspLock)
    /\ id \in DOMAIN lspSessions
    /\ Returns("lsp_start", id, "AlreadyExists")
    /\ UNCHANGED <<coreVars, lspVars, termVars, dapVars,
                   bgVars, rdVars>>

\* lsp_start, lines 66-68: Command::spawn fails.
LspStartSpawnFails(id) ==
    /\ Quiet
    /\ MutexFree(lspLock)
    /\ id \notin DOMAIN lspSessions
    /\ Returns("lsp_start", id, "SpawnFailure")
    /\ UNCHANGED <<coreVars, lspVars, termVars, dapVars,
                   bgVars, rdVars>>

\* lsp_start, lines 45-182, all under the sessions mutex: spawn the child,
\* insert the session, start the two readers and the exit watcher.
LspStartOk(id) ==
    /\ Quiet
    /\ MutexFree(lspLock)
    /\ id \notin DOMAIN lspSessions
    /\ nextEp <= MaxEndpoints
    /\ LET e == nextEp IN
        /\ nextEp' = e + 1
        /\ epKind' = [epKind EXCEPT ![e] = "lsp"]
        /\ epState' = [epState EXCEPT ![e] = "running"]
        /\ lspSessions' = MapPut(lspSessions, id, [child |-> e, stdin |-> e])
        /\ epThreads' = [epThreads EXCEPT ![e] = {"stdout", "stderr", "exit"}]
        /\ epSid' = [epSid EXCEPT ![e] = id]
    /\ Returns("lsp_start", id, "Ok")
    /\ UNCHANGED <<taskVars, epCode, epStream, epWriter, sendLog,
                   lspLock, lspEvents, termVars, dapVars,
                   bgVars, rdVars>>

lsp_start(id) ==
    \/ LspStartExists(id)
    \/ LspStartSpawnFails(id)
    \/ LspStartOk(id)

\* The child of a language server exits by itself.
LspChildExits(e, code) ==
    /\ Quiet
    /\ epKind[e] = "lsp"
    /\ epState[e] = "running"
    /\ epState' = [epState EXCEPT ![e] = "exited"]
    /\ epCode' = [epCode EXCEPT ![e] = Some(code)]
    /\ UNCHANGED <<taskVars, nextEp, epKind, epStream, epWriter, epThreads,
                   epSid, sendLog, lspVars, termVars, dapVars, ret,
                   bgVars, rdVars, bgRet>>

\* A watcher that removes the session of an exited child and publishes
\* nothing.
LspWatcherExitSilent(w) ==
    /\ Quiet
    /\ "exit" \in epThreads[w]
    /\ MutexFree(lspLock)
    /\ epSid[w] \in DOMAIN lspSessions
    /\ epState[lspSessions[epSid[w]].child] = "exited"
    /\ lspSessions' = MapRemove(lspSessions, epSid[w])
    /\ epThreads' = [epThreads EXCEPT ![w] = @ \ {"exit"}]
    /\ UNCHANGED <<taskVars, nextEp, epKind, epState, epCode, epStream,
                   epWriter, epSid, sendLog, lspLock, lspEvents, termVars,
                   dapVars, ret, bgVars, rdVars, bgRet>>

\* A watcher that publishes the exit of the registered child and leaves the
\* session in the registry.
LspWatcherExitKeepsSession(w) ==
    /\ Quiet
    /\ "exit" \in epThreads[w]
    /\ MutexFree(lspLock)
    /\ epSid[w] \in DOMAIN lspSessions
    /\ LET sid == epSid[w]
           c == lspSessions[sid].child IN
        /\ epState[c] = "exited"
        /\ lspEvents' = Append(lspEvents,
               [type |-> "lsp-exit", server_id |-> sid, code |-> epCode[c],
                child |-> c])
    /\ epThreads' = [epThreads EXCEPT ![w] = @ \ {"exit"}]
    /\ UNCHANGED <<taskVars, nextEp, epKind, epState, epCode, epStream,
                   epWriter, epSid, sendLog, lspLock, lspSessions, termVars,
                   dapVars, ret, bgVars, rdVars, bgRet>>

\* Exit watcher, lines 154-179: one iteration of the loop after the sleep.
\* The watcher started for child w looks the session up by the server id
\* it captured, and polls whatever child is registered under it.
\* try_wait on an owned, unreaped child does not fail; the Err arm
\* (lines 171-174) has no reachable case.
\* Lines 157-168: the registered child has exited.
LspWatcherExit(w) ==
    /\ Quiet
    /\ "exit" \in epThreads[w]
    /\ MutexFree(lspLock)
    /\ epSid[w] \in DOMAIN lspSessions
    /\ LET sid == epSid[w]
           c == lspSessions[sid].child IN
        /\ epState[c] = "exited"
        /\ lspEvents' = Append(lspEvents,
               [type |-> "lsp-exit", server_id |-> sid, code |-> epCode[c],
                child |-> c])
        /\ lspSessions' = MapRemove(lspSessions, sid)
    /\ epThreads' = [epThreads EXCEPT ![w] = @ \ {"exit"}]
    /\ UNCHANGED <<taskVars, nextEp, epKind, epState, epCode, epStream,
                   epWriter, epSid, sendLog, lspLock, termVars, dapVars, ret,
                   bgVars, rdVars, bgRet>>

\* Line 170: the registered child is still running.
LspWatcherRunning(w) ==
    /\ Quiet
    /\ "exit" \in epThreads[w]
    /\ MutexFree(lspLock)
    /\ epSid[w] \in DOMAIN lspSessions
    /\ epState[lspSessions[epSid[w]].child] = "running"
    /\ UNCHANGED vars

\* Lines 176-178: no session under the id.
LspWatcherGone(w) ==
    /\ Quiet
    /\ "exit" \in epThreads[w]
    /\ MutexFree(lspLock)
    /\ epSid[w] \notin DOMAIN lspSessions
    /\ epThreads' = [epThreads EXCEPT ![w] = @ \ {"exit"}]
    /\ UNCHANGED <<taskVars, nextEp, epKind, epState, epCode, epStream,
                   epWriter, epSid, sendLog, lspVars, termVars, dapVars, ret,
                   bgVars, rdVars, bgRet>>

LspWatcherPoll(w) ==
    \/ LspWatcherExit(w)
    \/ LspWatcherRunning(w)
    \/ LspWatcherGone(w)

\* A stop that kills the child and leaves the session registered.
LspStopKeepsSession(id) ==
    /\ Quiet
    /\ MutexFree(lspLock)
    /\ IF id \in DOMAIN lspSessions
       THEN LET c == lspSessions[id].child IN
            /\ epState' = [epState EXCEPT
                   ![c] = IF @ = "running" THEN "killed" ELSE @]
       ELSE UNCHANGED epState
    /\ Returns("lsp_stop", id, "Ok")
    /\ UNCHANGED <<taskVars, nextEp, epKind, epCode, epStream, epWriter,
                   epThreads, epSid, sendLog, lspVars,
                   termVars, dapVars,
                   bgVars, rdVars>>

\* lsp_stop, lines 209-216: remove, kill and reap under the sessions mutex.
lsp_stop(id) ==
    /\ Quiet
    /\ MutexFree(lspLock)
    /\ IF id \in DOMAIN lspSessions
       THEN LET c == lspSessions[id].child IN
            /\ lspSessions' = MapRemove(lspSessions, id)
            /\ epState' = [epState EXCEPT
                   ![c] = IF @ = "running" THEN "killed" ELSE @]
       ELSE UNCHANGED <<lspSessions, epState>>
    /\ Returns("lsp_stop", id, "Ok")
    /\ UNCHANGED <<taskVars, nextEp, epKind, epCode, epStream, epWriter,
                   epThreads, epSid, sendLog, lspLock, lspEvents,
                   termVars, dapVars,
                   bgVars, rdVars>>

\* A send has found its session: its locals, and its entry in the history.
SendCtx(id, e, msg) ==
    [id |-> id, ep |-> e, msg |-> msg, tag |-> Len(sendLog) + 1, pos |-> 0]
SendEntry(t, kind, id, e, bytes) ==
    [task |-> t, kind |-> kind, id |-> id, ep |-> e, bytes |-> bytes,
     res |-> "pending"]

\* A send to an absent id that reports success.
LspSendNotFoundOk(t, id, msg) ==
    /\ Quiet
    /\ taskPc[t] = "idle"
    /\ MutexFree(lspLock)
    /\ id \notin DOMAIN lspSessions
    /\ Returns("lsp_send", id, "Ok")
    /\ UNCHANGED <<coreVars, lspVars, termVars, dapVars,
                   bgVars, rdVars>>

\* lsp_send, lines 191-194: the id is not registered.
LspSendNotFound(t, id, msg) ==
    /\ Quiet
    /\ taskPc[t] = "idle"
    /\ MutexFree(lspLock)
    /\ id \notin DOMAIN lspSessions
    /\ Returns("lsp_send", id, "NotFound")
    /\ UNCHANGED <<coreVars, lspVars, termVars, dapVars,
                   bgVars, rdVars>>

\* lsp_send, lines 191-194: take the sessions mutex and find the session.
LspSendLookup(t, id, msg) ==
    /\ Quiet
    /\ taskPc[t] = "idle"
    /\ MutexFree(lspLock)
    /\ id \in DOMAIN lspSessions
    /\ Len(sendLog) < MaxSends
    /\ lspLock' = lspLock \cup {t}
    /\ taskPc' = [taskPc EXCEPT ![t] = "lsp_stdin"]
    /\ taskCtx' = [taskCtx EXCEPT
           ![t] = SendCtx(id, lspSessions[id].stdin, msg)]
    /\ sendLog' = Append(sendLog,
           SendEntry(t, "lsp", id, lspSessions[id].stdin,
                     LspHeader(msg) \o msg))
    /\ UNCHANGED <<nextEp, epKind, epState, epCode, epStream, epWriter,
                   epThreads, epSid, lspSessions, lspEvents,
                   termVars, dapVars, ret,
                   bgVars, rdVars, bgRet>>

\* A send that gives up the sessions mutex when it takes the stdin mutex.
LspSendLockStdinDropsRegistry(t) ==
    /\ Quiet
    /\ taskPc[t] = "lsp_stdin"
    /\ MutexFree(epWriter[taskCtx[t].ep])
    /\ epWriter' = [epWriter EXCEPT ![taskCtx[t].ep] = @ \cup {t}]
    /\ lspLock' = lspLock \ {t}
    /\ taskPc' = [taskPc EXCEPT ![t] = "lsp_header"]
    /\ UNCHANGED <<taskCtx, nextEp, epKind, epState, epCode, epStream,
                   epThreads, epSid, sendLog, lspSessions, lspEvents,
                   termVars, dapVars, ret, bgVars, rdVars, bgRet>>

\* lsp_send, line 196: session.stdin.lock().
LspSendLockStdin(t) ==
    /\ Quiet
    /\ taskPc[t] = "lsp_stdin"
    /\ MutexFree(epWriter[taskCtx[t].ep])
    /\ epWriter' = [epWriter EXCEPT ![taskCtx[t].ep] = @ \cup {t}]
    /\ taskPc' = [taskPc EXCEPT ![t] = "lsp_header"]
    /\ UNCHANGED <<taskCtx, nextEp, epKind, epState, epCode, epStream,
                   epThreads, epSid, sendLog, lspVars, termVars, dapVars, ret,
                   bgVars, rdVars, bgRet>>

\* The guards of a send go out of scope: the writer mutex is released and
\* the command returns res.
SendReturn(t, op, res) ==
    /\ taskPc' = [taskPc EXCEPT ![t] = "idle"]
    /\ taskCtx' = [taskCtx EXCEPT ![t] = IdleCtx]
    /\ epWriter' = [epWriter EXCEPT ![taskCtx[t].ep] = @ \ {t}]
    /\ sendLog' = [sendLog EXCEPT ![taskCtx[t].tag].res = res]
    /\ Returns(op, taskCtx[t].id, res)

\* lsp_send, lines 197-200: write_all(header). The header is far below
\* PIPE_BUF, so the pipe takes it whole or not at all.
LspSendHeader(t) ==
    /\ Quiet
    /\ taskPc[t] = "lsp_header"
    /\ LET c == taskCtx[t] IN
       \E ok \in WriteOutcomes(c.ep) :
       IF ok
       THEN /\ epStream' = [epStream EXCEPT
                  ![c.ep] = @ \o Tagged(c.tag, LspHeader(c.msg))]
            /\ taskPc' = [taskPc EXCEPT ![t] = "lsp_body"]
            /\ UNCHANGED <<taskCtx, epWriter, sendLog, lspLock, ret, bgRet>>
       ELSE /\ SendReturn(t, "lsp_send", "IoError")
            /\ lspLock' = lspLock \ {t}
            /\ UNCHANGED epStream
    /\ UNCHANGED <<nextEp, epKind, epState, epCode, epThreads, epSid,
                   lspSessions, lspEvents, termVars, dapVars,
                   bgVars, rdVars>>

\* lsp_send, lines 201-205: write_all(message), flush (a no-op on
\* ChildStdin), Ok. write_all of no bytes makes no write call and succeeds.
LspSendBody(t) ==
    /\ Quiet
    /\ taskPc[t] = "lsp_body"
    /\ LET c == taskCtx[t] IN
       \E ok \in (IF c.msg = <<>> THEN {TRUE} ELSE WriteOutcomes(c.ep)) :
       IF ok
       THEN /\ epStream' = [epStream EXCEPT
                  ![c.ep] = @ \o Tagged(c.tag, c.msg)]
            /\ SendReturn(t, "lsp_send", "Ok")
       ELSE /\ SendReturn(t, "lsp_send", "IoError")
            /\ UNCHANGED epStream
    /\ lspLock' = lspLock \ {t}
    /\ UNCHANGED <<nextEp, epKind, epState, epCode, epThreads, epSid,
                   lspSessions, lspEvents, termVars, dapVars,
                   bgVars, rdVars>>

lsp_send(t, id, msg) ==
    \/ LspSendNotFound(t, id, msg)
    \/ LspSendLookup(t, id, msg)

LspSendStep(t) ==
    \/ LspSendLockStdin(t)
    \/ LspSendHeader(t)
    \/ LspSendBody(t)

LspNext ==
    \/ \E id \in LspIds : lsp_start(id)
    \/ \E id \in LspIds : lsp_stop(id)
    \/ \E t \in Tasks, id \in LspIds, msg \in Payloads : lsp_send(t, id, msg)
    \/ \E t \in Tasks : LspSendStep(t)
    \/ \E w \in Endpoints : LspWatcherPoll(w)
    \/ \E e \in Endpoints, code \in ExitCodes : LspChildExits(e, code)

(***************************************************************************)
(* terminal.rs                                                             *)
(***************************************************************************)

\* spawn_terminal, lines 26-45: openpty, spawn_command, try_clone_reader or
\* take_writer fails.
TermSpawnFails(id) ==
    /\ Quiet
    /\ Returns("spawn_terminal", id, "SpawnFailure")
    /\ UNCHANGED <<coreVars, lspVars, termVars, dapVars,
                   bgVars, rdVars>>

\* spawn_terminal, lines 23-70: a new pty and shell; the session is
\* inserted under id whether or not the id is taken (line 50), and the
\* reader thread is started. A session that is replaced is dropped; its
\* pty stays open through the reader's clone.
TermSpawnOk(id) ==
    /\ Quiet
    /\ MutexFree(termLock)
    /\ nextEp <= MaxEndpoints
    /\ LET e == nextEp IN
        /\ nextEp' = e + 1
        /\ epKind' = [epKind EXCEPT ![e] = "term"]
        /\ epState' = [epState EXCEPT ![e] = "running"]
        /\ termSessions' = MapPut(termSessions, id, [writer |-> e, pty |-> e])
        /\ epThreads' = [epThreads EXCEPT ![e] = {"reader"}]
        /\ epSid' = [epSid EXCEPT ![e] = id]
    /\ Returns("spawn_terminal", id, "Ok")
    /\ UNCHANGED <<taskVars, epCode, epStream, epWriter, sendLog,
                   termLock, lspVars, dapVars,
                   bgVars, rdVars>>

spawn_terminal(id) ==
    \/ TermSpawnFails(id)
    \/ TermSpawnOk(id)

\* The shell of a terminal exits.
\* Its exit status is never read (the child handle is dropped at line 70).
TermShellExits(e) ==
    /\ Quiet
    /\ epKind[e] = "term"
    /\ epState[e] = "running"
    /\ epState' = [epState EXCEPT ![e] = "exited"]
    /\ UNCHANGED <<taskVars, nextEp, epKind, epCode, epStream, epWriter,
                   epThreads, epSid, sendLog, lspVars, termVars, dapVars, ret,
                   bgVars, rdVars, bgRet>>

\* write_to_terminal, lines 79-85: no session under the id; Ok all the same.
TermWriteNoSession(t, id, data) ==
    /\ Quiet
    /\ taskPc[t] = "idle"
    /\ MutexFree(termLock)
    /\ id \notin DOMAIN termSessions
    /\ Returns("write_to_terminal", id, "Ok")
    /\ UNCHANGED <<coreVars, lspVars, termVars, dapVars,
                   bgVars, rdVars>>

\* write_to_terminal, lines 79-80: take the sessions mutex, find the session.
TermWriteLookup(t, id, data) ==
    /\ Quiet
    /\ taskPc[t] = "idle"
    /\ MutexFree(termLock)
    /\ id \in DOMAIN termSessions
    /\ Len(sendLog) < MaxSends
    /\ termLock' = termLock \cup {t}
    /\ taskPc' = [taskPc EXCEPT ![t] = "term_writer"]
    /\ taskCtx' = [taskCtx EXCEPT
           ![t] = SendCtx(id, termSessions[id].writer, data)]
    /\ sendLog' = Append(sendLog,
           SendEntry(t, "term", id, termSessions[id].writer, data))
    /\ UNCHANGED <<nextEp, epKind, epState, epCode, epStream, epWriter,
                   epThreads, epSid, termSessions, lspVars, dapVars, ret,
                   bgVars, rdVars, bgRet>>

\* write_to_terminal, line 81: session.writer.lock().
TermWriteLockWriter(t) ==
    /\ Quiet
    /\ taskPc[t] = "term_writer"
    /\ MutexFree(epWriter[taskCtx[t].ep])
    /\ epWriter' = [epWriter EXCEPT ![taskCtx[t].ep] = @ \cup {t}]
    /\ taskPc' = [taskPc EXCEPT ![t] = "term_write"]
    /\ UNCHANGED <<taskCtx, nextEp, epKind, epState, epCode, epStream,
                   epThreads, epSid, sendLog, lspVars, termVars, dapVars, ret,
                   bgVars, rdVars, bgRet>>

\* std::io::Write::write_all: one write call of the loop. The call takes
\* the first k of the bytes that are left, for some k >= 1, or fails.
WriteAllStep(t, k, ok) ==
    LET c == taskCtx[t] IN
    /\ c.pos < Len(c.msg)
    /\ k \in 1..(Len(c.msg) - c.pos)
    /\ ok
    /\ epStream' = [epStream EXCEPT
           ![c.ep] = @ \o Tagged(c.tag, SubSeq(c.msg, c.pos + 1, c.pos + k))]
    /\ taskCtx' = [taskCtx EXCEPT ![t].pos = c.pos + k]

\* write_to_terminal, line 82: a write call of write_all takes some bytes.
TermWriteChunk(t) ==
    /\ Quiet
    /\ taskPc[t] = "term_write"
    /\ \E k \in 1..Len(taskCtx[t].msg), ok \in WriteOutcomes(taskCtx[t].ep) :
           WriteAllStep(t, k, ok)
    /\ UNCHANGED <<taskPc, nextEp, epKind, epState, epCode, epWriter,
                   epThreads, epSid, sendLog, lspVars, termVars, dapVars, ret,
                   bgVars, rdVars, bgRet>>

\* write_to_terminal, line 82: a write call of write_all fails.
TermWriteFails(t) ==
    /\ Quiet
    /\ taskPc[t] = "term_write"
    /\ taskCtx[t].pos < Len(taskCtx[t].msg)
    /\ FALSE \in WriteOutcomes(taskCtx[t].ep)
    /\ SendReturn(t, "write_to_terminal", "IoError")
    /\ termLock' = termLock \ {t}
    /\ UNCHANGED <<nextEp, epKind, epState, epCode, epStream, epThreads,
                   epSid, termSessions, lspVars, dapVars,
                   bgVars, rdVars>>

\* write_to_terminal, lines 82-85: all bytes written; flush (a no-op on the
\* pty writer); Ok.
TermWriteDone(t) ==
    /\ Quiet
    /\ taskPc[t] = "term_write"
    /\ taskCtx[t].pos = Len(taskCtx[t].msg)
    /\ SendReturn(t, "write_to_terminal", "Ok")
    /\ termLock' = termLock \ {t}
    /\ UNCHANGED <<nextEp, epKind, epState, epCode, epStream, epThreads,
                   epSid, termSessions, lspVars, dapVars,
                   bgVars, rdVars>>

write_to_terminal(t, id, data) ==
    \/ TermWriteNoSession(t, id, data)
    \/ TermWriteLookup(t, id, data)

TermWriteStep(t) ==
    \/ TermWriteLockWriter(t)
    \/ TermWriteChunk(t)
    \/ TermWriteFails(t)
    \/ TermWriteDone(t)

TermNext ==
    \/ \E id \in TermIds : spawn_terminal(id)
    \/ \E t \in Tasks, id \in TermIds, data \in Payloads :
           write_to_terminal(t, id, data)
    \/ \E t \in Tasks : TermWriteStep(t)
    \/ \E e \in Endpoints : TermShellExits(e)

(***************************************************************************)
(* dap.rs                                                                  *)
(***************************************************************************)

\* A failed connect that empties the session slot.
DapConnectFailsClearsSlot(id) ==
    /\ Quiet
    /\ dapSession' = None
    /\ Returns("dap_connect", id, "SpawnFailure")
    /\ UNCHANGED <<coreVars, lspVars, termVars, dapLock, bgVars, rdVars>>

\* dap_connect, lines 24-31: connect, set_nonblocking or try_clone fails.
DapConnectFails(id) ==
    /\ Quiet
    /\ Returns("dap_connect", id, "SpawnFailure")
    /\ UNCHANGED <<coreVars, lspVars, termVars, dapVars,
                   bgVars, rdVars>>

\* dap_connect, lines 24-61: a new connection; the session slot is
\* overwritten (line 35) and the reader thread is started. A session that
\* is replaced is dropped; its socket stays open through the reader's clone.
DapConnectOk(id) ==
    /\ Quiet
    /\ MutexFree(dapLock)
    /\ nextEp <= MaxEndpoints
    /\ LET e == nextEp IN
        /\ nextEp' = e + 1
        /\ epKind' = [epKind EXCEPT ![e] = "dap"]
        /\ epState' = [epState EXCEPT ![e] = "running"]
        /\ dapSession' = Some([id |-> id, writer |-> e])
        /\ epThreads' = [epThreads EXCEPT ![e] = {"reader"}]
        /\ epSid' = [epSid EXCEPT ![e] = id]
    /\ Returns("dap_connect", id, "Ok")
    /\ UNCHANGED <<taskVars, epCode, epStream, epWriter, sendLog,
                   dapLock, lspVars, termVars,
                   bgVars, rdVars>>

dap_connect(id) ==
    \/ DapConnectFails(id)
    \/ DapConnectOk(id)

\* The debug adapter closes its side of the connection.
DapRemoteCloses(e) ==
    /\ Quiet
    /\ epKind[e] = "dap"
    /\ epState[e] = "running"
    /\ epState' = [epState EXCEPT ![e] = "exited"]
    /\ UNCHANGED <<taskVars, nextEp, epKind, epCode, epStream, epWriter,
                   epThreads, epSid, sendLog, lspVars, termVars, dapVars, ret,
                   bgVars, rdVars, bgRet>>

\* dap_send, lines 69-79: the slot is empty.
DapSendNoSession(t, message) ==
    /\ Quiet
    /\ taskPc[t] = "idle"
    /\ MutexFree(dapLock)
    /\ dapSession = None
    /\ Returns("dap_send", "", "NotFound")
    /\ UNCHANGED <<coreVars, lspVars, termVars, dapVars,
                   bgVars, rdVars>>

\* dap_send, lines 69-70: take the sessions mutex, find the session.
DapSendLookup(t, message) ==
    /\ Quiet
    /\ taskPc[t] = "idle"
    /\ MutexFree(dapLock)
    /\ dapSession # None
    /\ Len(sendLog) < MaxSends
    /\ dapLock' = dapLock \cup {t}
    /\ taskPc' = [taskPc EXCEPT ![t] = "dap_writer"]
    /\ taskCtx' = [taskCtx EXCEPT
           ![t] = SendCtx(dapSession[1].id, dapSession[1].writer, message)]
    /\ sendLog' = Append(sendLog,
           SendEntry(t, "dap", dapSession[1].id, dapSession[1].writer,
                     message))
    /\ UNCHANGED <<nextEp, epKind, epState, epCode, epStream, epWriter,
                   epThreads, epSid, dapSession, lspVars, termVars, ret,
                   bgVars, rdVars, bgRet>>

\* dap_send, line 71: session.writer.lock().
DapSendLockWriter(t) ==
    /\ Quiet
    /\ taskPc[t] = "dap_writer"
    /\ MutexFree(epWriter[taskCtx[t].ep])
    /\ epWriter' = [epWriter EXCEPT ![taskCtx[t].ep] = @ \cup {t}]
    /\ taskPc' = [taskPc EXCEPT ![t] = "dap_write"]
    /\ UNCHANGED <<taskCtx, nextEp, epKind, epState, epCode, epStream,
                   epThreads, epSid, sendLog, lspVars, termVars, dapVars, ret,
                   bgVars, rdVars, bgRet>>

\* dap_send, lines 72-74: a write call of write_all takes some bytes.
DapSendChunk(t) ==
    /\ Quiet
    /\ taskPc[t] = "dap_write"
    /\ \E k \in 1..Len(taskCtx[t].msg), ok \in WriteOutcomes(taskCtx[t].ep) :
           WriteAllStep(t, k, ok)
    /\ UNCHANGED <<taskPc, nextEp, epKind, epState, epCode, epWriter,
                   epThreads, epSid, sendLog, lspVars, termVars, dapVars, ret,
                   bgVars, rdVars, bgRet>>

\* A failed write that also empties the session slot.
DapSendFailsDropsSession(t) ==
    /\ Quiet
    /\ taskPc[t] = "dap_write"
    /\ taskCtx[t].pos < Len(taskCtx[t].msg)
    /\ FALSE \in WriteOutcomes(taskCtx[t].ep)
    /\ SendReturn(t, "dap_send", "IoError")
    /\ dapLock' = dapLock \ {t}
    /\ dapSession' = None
    /\ UNCHANGED <<nextEp, epKind, epState, epCode, epStream, epThreads,
                   epSid, lspVars, termVars,
                   bgVars, rdVars>>

\* dap_send, lines 72-74: a write call of write_all fails.
DapSendFails(t) ==
    /\ Quiet
    /\ taskPc[t] = "dap_write"
    /\ taskCtx[t].pos < Len(taskCtx[t].msg)
    /\ FALSE \in WriteOutcomes(taskCtx[t].ep)
    /\ SendReturn(t, "dap_send", "IoError")
    /\ dapLock' = dapLock \ {t}
    /\ UNCHANGED <<nextEp, epKind, epState, epCode, epStream, epThreads,
                   epSid, dapSession, lspVars, termVars,
                   bgVars, rdVars>>

\* dap_send, lines 72-76: all bytes written; flush (a no-op on TcpStream);
\* Ok.
DapSendDone(t) ==
    /\ Quiet
    /\ taskPc[t] = "dap_write"
    /\ taskCtx[t].pos = Len(taskCtx[t].msg)
    /\ SendReturn(t, "dap_send", "Ok")
    /\ dapLock' = dapLock \ {t}
    /\ UNCHANGED <<nextEp, epKind, epState, epCode, epStream, epThreads,
                   epSid, dapSession, lspVars, termVars,
                   bgVars, rdVars>>

\* dap_disconnect, lines 83-87: empty the slot.
dap_disconnect ==
    /\ Quiet
    /\ MutexFree(dapLock)
    /\ dapSession' = None
    /\ Returns("dap_disconnect", "", "Ok")
    /\ UNCHANGED <<coreVars, dapLock, lspVars, termVars,
                   bgVars, rdVars>>

dap_send(t, message) ==
    \/ DapSendNoSession(t, message)
    \/ DapSendLookup(t, message)

DapSendStep(t) ==
    \/ DapSendLockWriter(t)
    \/ DapSendChunk(t)
    \/ DapSendFails(t)
    \/ DapSendDone(t)

DapNext ==
    \/ \E id \in DapIds : dap_connect(id)
    \/ dap_disconnect
    \/ \E t \in Tasks, message \in Payloads : dap_send(t, message)
    \/ \E t \in Tasks : DapSendStep(t)
    \/ \E e \in Endpoints : DapRemoteCloses(e)

(***************************************************************************)
(* background_cmd.rs                                                       *)
(***************************************************************************)
BufSize == 1024

Min(a, b) == IF a < b THEN a ELSE b

RECURSIVE Lossy(_)
\* String::from_utf8_lossy: the characters of a byte string, every byte
\* that is part of no well-formed character replaced by U+FFFD ("?").
\* "C3A9" is the character encoded by the bytes C3 A9; every other byte of the
\* model is an ASCII character.
Lossy(b) ==
    IF b = <<>> THEN <<>>
    ELSE IF Head(b) \notin {"C3", "A9"} THEN <<Head(b)>> \o Lossy(Tail(b))
    ELSE IF Head(b) = "C3" /\ Len(b) >= 2 /\ b[2] = "A9"
         THEN <<"C3A9">> \o Lossy(SubSeq(b, 3, Len(b)))
    ELSE <<"?">> \o Lossy(Tail(b))

\* Everything the command has written to stream s so far.
Written(p, s) == bgBuf[p][s] \o bgPipe[p][s]
RECURSIVE SumOver(_, _)
SumOver(f, S) ==
    IF S = {} THEN 0
    ELSE LET x == CHOOSE y \in S : TRUE IN f[x] + SumOver(f, S \ {x})
\* The bytes written so far by the commands and by the far ends of the
\* sessions.
BytesWritten ==
    SumOver([p \in BgProcs |->
                Len(Written(p, "stdout")) + Len(Written(p, "stderr"))],
            BgProcs)
    + SumOver([e \in Endpoints |->
                  Len(epOutAll[e]["stdout"]) + Len(epOutAll[e]["stderr"])],
              Endpoints)

CmdResult(op, p, status, code) ==
    [op |-> op, pid |-> Some(p), res |-> "Ok", status |-> status,
     stdout |-> Lossy(bgBuf[p]["stdout"]),
     stderr |-> Lossy(bgBuf[p]["stderr"]), exit_code |-> code,
     pre |-> BgWorld]
CmdErr(op, pid, res) ==
    [op |-> op, pid |-> pid, res |-> res, status |-> "",
     stdout |-> <<>>, stderr |-> <<>>, exit_code |-> None, pre |-> BgWorld]
CmdOk(op, pid) == CmdErr(op, pid, "Ok")

BgReturns(r) ==
    /\ bgRet' = r
    /\ UNCHANGED ret

\* exec_background_cmd, line 62: spawn fails.
BgExecSpawnFails ==
    /\ Quiet
    /\ BgReturns(CmdErr("exec_background_cmd", None, "SpawnFailure"))
    /\ UNCHANGED <<coreVars, lspVars, termVars, dapVars, bgVars, rdVars>>

\* exec_background_cmd, lines 62-117: spawn the command, start the two
\* reader tasks, generate the id, enter select!.
BgExecSpawn ==
    /\ Quiet
    /\ bgNext <= MaxBgProcs
    /\ LET p == bgNext IN
        /\ bgNext' = p + 1
        /\ bgProc' = [bgProc EXCEPT ![p] = "running"]
        /\ bgCall' = [bgCall EXCEPT ![p] = "racing"]
    /\ UNCHANGED <<coreVars, lspVars, termVars, dapVars, rdVars, bgCode, bgPipe,
                   bgBuf, bgTimer, bgKill, bgProcesses, ret, bgRet>>

\* The command writes a byte to one of its streams.
BgProcWrites(p, s, b) ==
    /\ Quiet
    /\ bgProc[p] = "running"
    /\ BytesWritten < MaxOut
    /\ bgPipe' = [bgPipe EXCEPT ![p][s] = Append(@, b)]
    /\ UNCHANGED <<coreVars, lspVars, termVars, dapVars, rdVars, bgNext, bgProc,
                   bgCode, bgBuf, bgCall, bgTimer, bgKill,
                   bgProcesses, ret, bgRet>>

\* The command exits by itself.
BgProcExits(p, code) ==
    /\ Quiet
    /\ bgProc[p] = "running"
    /\ bgProc' = [bgProc EXCEPT ![p] = "exited"]
    /\ bgCode' = [bgCode EXCEPT ![p] = Some(code)]
    /\ UNCHANGED <<coreVars, lspVars, termVars, dapVars, rdVars, bgNext, bgPipe,
                   bgBuf, bgCall, bgTimer, bgKill, bgProcesses,
                   ret, bgRet>>

\* Reader task, lines 79-84 / 94-99: read what is there, up to the size of
\* buf, and append it to the shared buffer. On Ok(0) the task ends, which
\* changes nothing.
BgReaderRead(p, s) ==
    /\ Quiet
    /\ bgProc[p] # "none"
    /\ bgPipe[p][s] # <<>>
    /\ LET n == Min(Len(bgPipe[p][s]), BufSize) IN
        /\ bgBuf' = [bgBuf EXCEPT ![p][s] = @ \o SubSeq(bgPipe[p][s], 1, n)]
        /\ bgPipe' = [bgPipe EXCEPT
               ![p][s] = SubSeq(@, n + 1, Len(@))]
    /\ UNCHANGED <<coreVars, lspVars, termVars, dapVars, rdVars, bgNext, bgProc,
                   bgCode, bgCall, bgTimer, bgKill, bgProcesses,
                   ret, bgRet>>

\* The sleep(timeout_duration) of a call in select! elapses.
BgTimerElapses(p) ==
    /\ Quiet
    /\ bgCall[p] = "racing"
    /\ ~bgTimer[p]
    /\ bgTimer' = [bgTimer EXCEPT ![p] = TRUE]
    /\ UNCHANGED <<coreVars, lspVars, termVars, dapVars, rdVars, bgNext, bgProc,
                   bgCode, bgPipe, bgBuf, bgCall, bgKill,
                   bgProcesses, ret, bgRet>>

\* The child.wait() branch, with the insert of the sleep branch added.
BgExecCompletedRegisters(p) ==
    /\ Quiet
    /\ bgCall[p] = "racing"
    /\ bgProc[p] = "exited"
    /\ bgCall' = [bgCall EXCEPT ![p] = "completed"]
    /\ bgProcesses' = MapPut(bgProcesses, p,
           [child |-> Some(p), stdout_buffer |-> p, stderr_buffer |-> p,
            is_finished |-> TRUE, exit_code |-> bgCode[p]])
    /\ BgReturns(CmdResult("exec_background_cmd", p, "completed", bgCode[p]))
    /\ UNCHANGED <<coreVars, lspVars, termVars, dapVars, rdVars, bgNext, bgProc,
                   bgCode, bgPipe, bgBuf, bgTimer, bgKill>>

\* The sleep branch, without its insert.
BgExecTimedOutForgets(p) ==
    /\ Quiet
    /\ bgCall[p] = "racing"
    /\ bgTimer[p]
    /\ bgCall' = [bgCall EXCEPT ![p] = "timed_out"]
    /\ BgReturns(CmdResult("exec_background_cmd", p, "running", None))
    /\ UNCHANGED <<coreVars, lspVars, termVars, dapVars, rdVars, bgNext, bgProc,
                   bgCode, bgPipe, bgBuf, bgTimer, bgKill, bgProcesses>>

\* exec_background_cmd, lines 118-136: select! takes the child.wait()
\* branch. wait on the owned child does not fail.
BgExecCompleted(p) ==
    /\ Quiet
    /\ bgCall[p] = "racing"
    /\ bgProc[p] = "exited"
    /\ bgCall' = [bgCall EXCEPT ![p] = "completed"]
    /\ BgReturns(CmdResult("exec_background_cmd", p, "completed", bgCode[p]))
    /\ UNCHANGED <<coreVars, lspVars, termVars, dapVars, rdVars, bgNext, bgProc,
                   bgCode, bgPipe, bgBuf, bgTimer, bgKill, bgProcesses>>

\* exec_background_cmd, lines 137-159: select! takes the sleep branch.
BgExecTimedOut(p) ==
    /\ Quiet
    /\ bgCall[p] = "racing"
    /\ bgTimer[p]
    /\ bgCall' = [bgCall EXCEPT ![p] = "timed_out"]
    /\ bgProcesses' = MapPut(bgProcesses, p,
           [child |-> Some(p), stdout_buffer |-> p, stderr_buffer |-> p,
            is_finished |-> FALSE, exit_code |-> None])
    /\ BgReturns(CmdResult("exec_background_cmd", p, "running", None))
    /\ UNCHANGED <<coreVars, lspVars, termVars, dapVars, rdVars, bgNext, bgProc,
                   bgCode, bgPipe, bgBuf, bgTimer, bgKill>>

exec_background_cmd ==
    \/ BgExecSpawnFails
    \/ BgExecSpawn
    \/ \E p \in BgProcs : BgExecCompleted(p)
    \/ \E p \in BgProcs : BgExecTimedOut(p)

\* A check of an absent id that also empties the registry.
BgCheckNotFoundPurges(pid) ==
    /\ Quiet
    /\ pid \notin DOMAIN bgProcesses
    /\ bgProcesses' = EmptyMap
    /\ BgReturns(CmdErr("check_background_cmd", Some(pid), "NotFound"))
    /\ UNCHANGED <<coreVars, lspVars, termVars, dapVars, rdVars, bgNext, bgProc,
                   bgCode, bgPipe, bgBuf, bgCall, bgTimer, bgKill>>

\* check_background_cmd, lines 165-166: no entry under pid.
BgCheckNotFound(pid) ==
    /\ Quiet
    /\ pid \notin DOMAIN bgProcesses
    /\ BgReturns(CmdErr("check_background_cmd", Some(pid), "NotFound"))
    /\ UNCHANGED <<coreVars, lspVars, termVars, dapVars, bgVars, rdVars>>

\* check_background_cmd, lines 168-211, under the processes mutex.
\* try_wait on the owned child does not fail.
BgCheckFound(pid) ==
    /\ Quiet
    /\ pid \in DOMAIN bgProcesses
    /\ LET proc == bgProcesses[pid] IN
       IF proc.is_finished
       THEN /\ BgReturns(CmdResult("check_background_cmd", pid, "completed",
                                   proc.exit_code))
            /\ UNCHANGED bgProcesses
       ELSE IF proc.child = None
       THEN /\ BgReturns(CmdErr("check_background_cmd", Some(pid),
                                "InvalidState"))
            /\ UNCHANGED bgProcesses
       ELSE IF bgProc[proc.child[1]] = "exited"
       THEN /\ bgProcesses' = [bgProcesses EXCEPT
                  ![pid].is_finished = TRUE,
                  ![pid].exit_code = bgCode[proc.child[1]]]
            /\ BgReturns(CmdResult("check_background_cmd", pid, "completed",
                                   bgCode[proc.child[1]]))
       ELSE /\ BgReturns(CmdResult("check_background_cmd", pid, "running",
                                   None))
            /\ UNCHANGED bgProcesses
    /\ UNCHANGED <<coreVars, lspVars, termVars, dapVars, rdVars, bgNext, bgProc,
                   bgCode, bgPipe, bgBuf, bgCall, bgTimer, bgKill>>

check_background_cmd(pid) ==
    \/ BgCheckNotFound(pid)
    \/ BgCheckFound(pid)

\* kill_background_cmd, lines 216-224: no entry under pid (or an entry
\* without a child): nothing to kill, Ok.
BgKillUnknown(pid) ==
    /\ Quiet
    /\ pid \notin DOMAIN bgProcesses
    /\ BgReturns(CmdOk("kill_background_cmd", Some(pid)))
    /\ UNCHANGED <<coreVars, lspVars, termVars, dapVars, bgVars, rdVars>>

\* A kill that takes the child and leaves the entry in the registry.
BgKillKeepsEntry(pid) ==
    /\ Quiet
    /\ pid \in DOMAIN bgProcesses
    /\ bgProcesses[pid].child # None
    /\ bgProcesses' = [bgProcesses EXCEPT ![pid].child = None]
    /\ bgKill' = bgKill \cup {bgProcesses[pid].child[1]}
    /\ UNCHANGED <<coreVars, lspVars, termVars, dapVars, rdVars, bgNext, bgProc,
                   bgCode, bgPipe, bgBuf, bgCall, bgTimer, ret, bgRet>>

\* kill_background_cmd, lines 216-219: remove the entry and take its child.
BgKillRemove(pid) ==
    /\ Quiet
    /\ pid \in DOMAIN bgProcesses
    /\ bgProcesses' = MapRemove(bgProcesses, pid)
    /\ IF bgProcesses[pid].child = None
       THEN /\ BgReturns(CmdOk("kill_background_cmd", Some(pid)))
            /\ UNCHANGED bgKill
       ELSE /\ bgKill' = bgKill \cup {bgProcesses[pid].child[1]}
            /\ UNCHANGED <<ret, bgRet>>
    /\ UNCHANGED <<coreVars, lspVars, termVars, dapVars, rdVars, bgNext, bgProc,
                   bgCode, bgPipe, bgBuf, bgCall, bgTimer>>

\* kill_background_cmd, lines 221-224: child.kill().await, Ok.
BgKillAwait(p) ==
    /\ Quiet
    /\ p \in bgKill
    /\ bgKill' = bgKill \ {p}
    /\ bgProc' = [bgProc EXCEPT ![p] = IF @ = "running" THEN "killed" ELSE @]
    /\ BgReturns(CmdOk("kill_background_cmd", Some(p)))
    /\ UNCHANGED <<coreVars, lspVars, termVars, dapVars, rdVars, bgNext, bgCode,
                   bgPipe, bgBuf, bgCall, bgTimer, bgProcesses>>

kill_background_cmd(pid) ==
    \/ BgKillUnknown(pid)
    \/ BgKillRemove(pid)

\* The ids a caller can pass: those an exec_background_cmd has returned.
\* The ids are fresh UUIDs, so an id that was never returned behaves as
\* one of a completed call: it is in the registry at no time.
IssuedPids == {p \in BgProcs : bgCall[p] \in {"completed", "timed_out"}}

BgNext ==
    \/ exec_background_cmd
    \/ \E pid \in IssuedPids : check_background_cmd(pid)
    \/ \E pid \in IssuedPids : kill_background_cmd(pid)
    \/ \E p \in BgProcs : BgKillAwait(p)
    \/ \E p \in BgProcs, s \in Streams, b \in OutBytes : BgProcWrites(p, s, b)
    \/ \E p \in BgProcs, code \in ExitCodes : BgProcExits(p, code)
    \/ \E p \in BgProcs, s \in Streams : BgReaderRead(p, s)
    \/ \E p \in BgProcs : BgTimerElapses(p)

(***************************************************************************)
(* The reader threads, and resize_terminal.                                *)
(***************************************************************************)
\* An event emitted by the reader thread of endpoint e.
RdEvent(type, e, data) ==
    [type |-> type, id |-> epSid[e], data |-> data, ep |-> e]

\* The endpoint writes bytes bs to stream s of its side.
EndpointWrites(e, s, bs) ==
    /\ epOut' = [epOut EXCEPT ![e][s] = @ \o bs]
    /\ epOutAll' = [epOutAll EXCEPT ![e][s] = @ \o bs]

\* ---- terminal.rs
TermBufSize == 4096
TermSizes == {<<30, 100>>}

\* The shell prints a byte on the pty.
TermShellWrites(e, b) ==
    /\ Quiet
    /\ epKind[e] = "term"
    /\ epState[e] = "running"
    /\ BytesWritten < MaxOut
    /\ EndpointWrites(e, "stdout", <<b>>)
    /\ UNCHANGED <<coreVars, lspVars, termVars, dapVars, bgVars, rdBuf, rdPc,
                   rdLen, rdEvents, ptySize, ret, bgRet>>

\* Reader thread, lines 61-67: read what is there, up to the size of
\* buffer, and emit it as terminal-data:{id}.
TermReaderRead(e) ==
    /\ Quiet
    /\ epKind[e] = "term"
    /\ "reader" \in epThreads[e]
    /\ epOut[e]["stdout"] # <<>>
    /\ LET n == Min(Len(epOut[e]["stdout"]), TermBufSize) IN
        /\ rdEvents' = Append(rdEvents,
               RdEvent("terminal-data", e,
                       Lossy(SubSeq(epOut[e]["stdout"], 1, n))))
        /\ epOut' = [epOut EXCEPT ![e]["stdout"] = SubSeq(@, n + 1, Len(@))]
    /\ UNCHANGED <<coreVars, lspVars, termVars, dapVars, bgVars, epOutAll,
                   rdBuf, rdPc, rdLen, ptySize, ret, bgRet>>

\* Reader thread, lines 61-64: the shell is gone and the read returns 0 or
\* an error; the loop and the thread end. The registry is not touched and
\* nothing is emitted.
TermReaderEnds(e) ==
    /\ Quiet
    /\ epKind[e] = "term"
    /\ "reader" \in epThreads[e]
    /\ epState[e] = "exited"
    /\ epOut[e]["stdout"] = <<>>
    /\ epThreads' = [epThreads EXCEPT ![e] = @ \ {"reader"}]
    /\ UNCHANGED <<taskVars, nextEp, epKind, epState, epCode, epStream,
                   epWriter, epSid, sendLog, lspVars, termVars, dapVars,
                   bgVars, rdVars, ret, bgRet>>

\* resize_terminal, lines 95-104: resize the pty of the session under id,
\* if there is one; Ok either way. The ioctl on the open master does not
\* fail.
resize_terminal(id, size) ==
    /\ Quiet
    /\ MutexFree(termLock)
    /\ IF id \in DOMAIN termSessions
       THEN ptySize' = [ptySize EXCEPT ![termSessions[id].pty] = size]
       ELSE UNCHANGED ptySize
    /\ Returns("resize_terminal", id, "Ok")
    /\ UNCHANGED <<coreVars, lspVars, termVars, dapVars, bgVars, epOut,
                   epOutAll, rdBuf, rdPc, rdLen, rdEvents>>

TermRdNext ==
    \/ \E e \in Endpoints, b \in OutBytes : TermShellWrites(e, b)
    \/ \E e \in Endpoints : TermReaderRead(e)
    \/ \E e \in Endpoints : TermReaderEnds(e)
    \/ \E id \in TermIds, size \in TermSizes : resize_terminal(id, size)

\* ---- dap.rs
DapBufSize == 8192

\* The debug adapter sends a byte.
DapRemoteWrites(e, b) ==
    /\ Quiet
    /\ epKind[e] = "dap"
    /\ epState[e] = "running"
    /\ BytesWritten < MaxOut
    /\ EndpointWrites(e, "stdout", <<b>>)
    /\ UNCHANGED <<coreVars, lspVars, termVars, dapVars, bgVars, rdBuf, rdPc,
                   rdLen, rdEvents, ptySize, ret, bgRet>>

\* A reader thread whose newest chunk comes first in the sink.
DapReaderReadNewestFirst(e) ==
    /\ Quiet
    /\ epKind[e] = "dap"
    /\ "reader" \in epThreads[e]
    /\ epOut[e]["stdout"] # <<>>
    /\ LET n == Min(Len(epOut[e]["stdout"]), DapBufSize) IN
        /\ rdEvents' = <<RdEvent("dap-data", e,
                                 Lossy(SubSeq(epOut[e]["stdout"], 1, n)))>>
                            \o rdEvents
        /\ epOut' = [epOut EXCEPT ![e]["stdout"] = SubSeq(@, n + 1, Len(@))]
    /\ UNCHANGED <<coreVars, lspVars, termVars, dapVars, bgVars, epOutAll,
                   rdBuf, rdPc, rdLen, ptySize, ret, bgRet>>

\* Reader thread, lines 45-53: read what has arrived, up to the size of
\* buffer, and emit it as dap-data with the id captured at connect.
DapReaderRead(e) ==
    /\ Quiet
    /\ epKind[e] = "dap"
    /\ "reader" \in epThreads[e]
    /\ epOut[e]["stdout"] # <<>>
    /\ LET n == Min(Len(epOut[e]["stdout"]), DapBufSize) IN
        /\ rdEvents' = Append(rdEvents,
               RdEvent("dap-data", e,
                       Lossy(SubSeq(epOut[e]["stdout"], 1, n))))
        /\ epOut' = [epOut EXCEPT ![e]["stdout"] = SubSeq(@, n + 1, Len(@))]
    /\ UNCHANGED <<coreVars, lspVars, termVars, dapVars, bgVars, epOutAll,
                   rdBuf, rdPc, rdLen, ptySize, ret, bgRet>>

\* Reader thread, lines 46, 54 and 58: the adapter has closed the
\* connection and the read returns 0 or an error; the thread emits
\* dap-terminated and ends. The session slot is not touched.
DapReaderTerminates(e) ==
    /\ Quiet
    /\ epKind[e] = "dap"
    /\ "reader" \in epThreads[e]
    /\ epState[e] = "exited"
    /\ epOut[e]["stdout"] = <<>>
    /\ rdEvents' = Append(rdEvents, RdEvent("dap-terminated", e, <<>>))
    /\ epThreads' = [epThreads EXCEPT ![e] = @ \ {"reader"}]
    /\ UNCHANGED <<taskVars, nextEp, epKind, epState, epCode, epStream,
                   epWriter, epSid, sendLog, lspVars, termVars, dapVars,
                   bgVars, epOut, epOutAll, rdBuf, rdPc, rdLen, ptySize,
                   ret, bgRet>>

DapRdNext ==
    \/ \E e \in Endpoints, b \in OutBytes : DapRemoteWrites(e, b)
    \/ \E e \in Endpoints : DapReaderRead(e)
    \/ \E e \in Endpoints : DapReaderTerminates(e)

\* ---- lsp.rs
\* BufReader::new (lines 88 and 131): the capacity of the buffer is the
\* default of the standard library, 8 KiB; an underlying read takes no
\* more.
BufReaderCapacity == 8192

\* The bytes are well-formed UTF-8: read_line and lines fail on a line
\* that is not.
ValidUtf8(b) == \A i \in DOMAIN Lossy(b) : Lossy(b)[i] # "?"

\* char::is_whitespace on the characters of the model.
IsSpace(c) == c \in {" ", "\t", "\r", "\n"}
RECURSIVE TrimStart(_)
TrimStart(s) ==
    IF s # <<>> /\ IsSpace(Head(s)) THEN TrimStart(Tail(s)) ELSE s
RECURSIVE TrimEnd(_)
TrimEnd(s) ==
    IF s # <<>> /\ IsSpace(s[Len(s)])
    THEN TrimEnd(SubSeq(s, 1, Len(s) - 1)) ELSE s
\* str::trim
Trim(s) == TrimEnd(TrimStart(s))

HasPrefix(s, prefix) ==
    Len(s) >= Len(prefix) /\ SubSeq(s, 1, Len(prefix)) = prefix
\* str::strip_prefix, where it is Some.
StripPrefix(s, prefix) == SubSeq(s, Len(prefix) + 1, Len(s))

IsDigit(c) == \E d \in 0..9 : Digit(d) = c
DigitValue(c) == CHOOSE d \in 0..9 : Digit(d) = c
RECURSIVE DigitsValue(_)
DigitsValue(s) ==
    IF s = <<>> THEN 0
    ELSE DigitsValue(SubSeq(s, 1, Len(s) - 1)) * 10 + DigitValue(s[Len(s)])
\* len_str.parse::<usize>().unwrap_or(0): decimal digits after an optional
\* "+"; anything else is an error, hence 0. The lengths of the model are
\* far below usize::MAX.
ParseLength(s) ==
    LET d == IF s # <<>> /\ Head(s) = "+" THEN Tail(s) ELSE s IN
    IF d # <<>> /\ \A i \in DOMAIN d : IsDigit(d[i])
    THEN DigitsValue(d) ELSE 0

\* The position of the first newline of buf, 0 if it has none.
NewlineAt(buf) ==
    IF \E i \in DOMAIN buf : buf[i] = "\n"
    THEN CHOOSE i \in DOMAIN buf :
             buf[i] = "\n" /\ \A j \in 1..(i - 1) : buf[j] # "\n"
    ELSE 0

\* The child is gone and all it wrote to stream s has been read: the
\* next underlying read returns 0.
AtEof(e, s) == epState[e] \in {"exited", "killed"} /\ epOut[e][s] = <<>>

\* A read_line that returns what one underlying read delivered, without
\* waiting for the newline.
LineEndOfOneRead(buf, eof) ==
    IF NewlineAt(buf) > 0 THEN NewlineAt(buf) ELSE Len(buf)

\* BufRead::read_line on the bytes buf read so far: the number of bytes it
\* returns, through the first newline, or all of buf at the end of the
\* stream; 0 while it has to wait for more.
LineEnd(buf, eof) ==
    IF NewlineAt(buf) > 0 THEN NewlineAt(buf)
    ELSE IF eof THEN Len(buf) ELSE 0

\* What the language server writes: header lines with a length of 2, of 0
\* and of -1, the blank line, a two-byte body, and a whole message with
\* that body, and a byte that is no character; lines of log output ending
\* in LF and in CR LF, the empty line, a line without its end, and a line
\* that is not UTF-8.
StdoutPieces ==
    {ContentLengthKey \o <<"2">> \o CRLF, ContentLengthKey \o <<"0">> \o CRLF,
     ContentLengthKey \o <<"-", "1">> \o CRLF, CRLF, <<"C3", "A9">>,
     LspHeader(<<"C3", "A9">>) \o <<"C3", "A9">>, <<"A9">>}
StderrPieces ==
    {<<"e", "\n">>, <<"w", "\r", "\n">>, <<"\n">>, <<"p">>, <<"A9", "\n">>}
RECURSIVE Scripts(_, _)
Scripts(pieces, n) ==
    IF n = 0 THEN {<<>>}
    ELSE LET shorter == Scripts(pieces, n - 1) IN
         shorter \cup {s \o p : s \in shorter, p \in pieces}
StdoutScripts == Scripts(StdoutPieces, MaxPieces) \ {<<>>}
StderrScripts == Scripts(StderrPieces, MaxPieces) \ {<<>>}

\* The language server writes a script to one of its streams; it is the
\* output of the run.
LspChildWrites(e, s, script) ==
    /\ Quiet
    /\ epKind[e] = "lsp"
    /\ epState[e] = "running"
    /\ BytesWritten = 0
    /\ EndpointWrites(e, s, script)
    /\ UNCHANGED <<coreVars, lspVars, termVars, dapVars, bgVars, rdBuf, rdPc,
                   rdLen, rdEvents, ptySize, ret, bgRet>>

\* An underlying read of the BufReader of stream s, made when the reader
\* thread needs more than it has: it takes some of the bytes that are
\* there.
RdNeedsMore(e, s) ==
    IF s = "stdout" /\ rdPc[e] = "body"
    THEN Len(rdBuf[e][s]) < rdLen[e]
    ELSE NewlineAt(rdBuf[e][s]) = 0
RdFill(e, s, k) ==
    /\ Quiet
    /\ epKind[e] = "lsp"
    /\ s \in epThreads[e]
    /\ RdNeedsMore(e, s)
    /\ k \in 1..Min(Len(epOut[e][s]), BufReaderCapacity)
    /\ rdBuf' = [rdBuf EXCEPT ![e][s] = @ \o SubSeq(epOut[e][s], 1, k)]
    /\ epOut' = [epOut EXCEPT ![e][s] = SubSeq(@, k + 1, Len(@))]
    /\ UNCHANGED <<coreVars, lspVars, termVars, dapVars, bgVars, epOutAll,
                   rdPc, rdLen, rdEvents, ptySize, ret, bgRet>>

\* A reader thread of the language server ends.
RdThreadEnds(e, s) ==
    /\ epThreads' = [epThreads EXCEPT ![e] = @ \ {s}]
    /\ UNCHANGED <<taskVars, nextEp, epKind, epState, epCode, epStream,
                   epWriter, epSid, sendLog>>

\* The content_length left by a header line: the parsed value of a
\* Content-Length line, the old value for any other line.
HeaderLength(trimmed, len) ==
    IF HasPrefix(trimmed, ContentLengthKey)
    THEN ParseLength(StripPrefix(trimmed, ContentLengthKey))
    ELSE len

\* Stdout reader, lines 91-109: read_line returns a line. A blank line
\* ends the header block: with content_length 0 the outer loop starts over
\* (content_length is 0 again, line 90), otherwise the body is next.
LspReaderHeader(e) ==
    /\ Quiet
    /\ epKind[e] = "lsp"
    /\ "stdout" \in epThreads[e]
    /\ rdPc[e] = "header"
    /\ LET buf == rdBuf[e]["stdout"]
           n == LineEnd(buf, AtEof(e, "stdout"))
           trimmed == Trim(SubSeq(buf, 1, n))
       IN  /\ n > 0
           /\ ValidUtf8(SubSeq(buf, 1, n))
           /\ rdBuf' = [rdBuf EXCEPT
                  ![e]["stdout"] = SubSeq(buf, n + 1, Len(buf))]
           /\ IF trimmed = <<>>
              THEN /\ rdPc' = [rdPc EXCEPT
                          ![e] = IF rdLen[e] = 0 THEN "header" ELSE "body"]
                   /\ UNCHANGED rdLen
              ELSE /\ rdLen' = [rdLen EXCEPT
                          ![e] = HeaderLength(trimmed, rdLen[e])]
                   /\ UNCHANGED rdPc
    /\ UNCHANGED <<coreVars, lspVars, termVars, dapVars, bgVars, epOut,
                   epOutAll, rdEvents, ptySize, ret, bgRet>>

\* Stdout reader, line 94: read_line returns Ok(0) at the end of the
\* stream; the thread returns.
LspReaderHeaderEof(e) ==
    /\ Quiet
    /\ epKind[e] = "lsp"
    /\ "stdout" \in epThreads[e]
    /\ rdPc[e] = "header"
    /\ rdBuf[e]["stdout"] = <<>>
    /\ AtEof(e, "stdout")
    /\ RdThreadEnds(e, "stdout")
    /\ UNCHANGED <<lspVars, termVars, dapVars, bgVars, rdVars, ret, bgRet>>

\* Stdout reader, line 95: the line is not UTF-8, read_line returns an
\* error; the thread returns, and what its BufReader held is gone with it.
LspReaderHeaderErr(e) ==
    /\ Quiet
    /\ epKind[e] = "lsp"
    /\ "stdout" \in epThreads[e]
    /\ rdPc[e] = "header"
    /\ LET buf == rdBuf[e]["stdout"]
           n == LineEnd(buf, AtEof(e, "stdout"))
       IN  n > 0 /\ ~ValidUtf8(SubSeq(buf, 1, n))
    /\ RdThreadEnds(e, "stdout")
    /\ UNCHANGED <<lspVars, termVars, dapVars, bgVars, rdVars, ret, bgRet>>

\* A stdout reader whose content_length outlives the message.
LspReaderBodyKeepsLength(e) ==
    /\ Quiet
    /\ epKind[e] = "lsp"
    /\ "stdout" \in epThreads[e]
    /\ rdPc[e] = "body"
    /\ LET buf == rdBuf[e]["stdout"] IN
        /\ Len(buf) >= rdLen[e]
        /\ rdEvents' = Append(rdEvents,
               RdEvent("lsp-message", e, Lossy(SubSeq(buf, 1, rdLen[e]))))
        /\ rdBuf' = [rdBuf EXCEPT
               ![e]["stdout"] = SubSeq(buf, rdLen[e] + 1, Len(buf))]
    /\ rdPc' = [rdPc EXCEPT ![e] = "header"]
    /\ UNCHANGED <<coreVars, lspVars, termVars, dapVars, bgVars, epOut,
                   epOutAll, rdLen, ptySize, ret, bgRet>>

\* Stdout reader, lines 111-124: read_exact fills body; the message is
\* emitted as lsp-message:{id}; the outer loop starts over.
LspReaderBody(e) ==
    /\ Quiet
    /\ epKind[e] = "lsp"
    /\ "stdout" \in epThreads[e]
    /\ rdPc[e] = "body"
    /\ LET buf == rdBuf[e]["stdout"] IN
        /\ Len(buf) >= rdLen[e]
        /\ rdEvents' = Append(rdEvents,
               RdEvent("lsp-message", e, Lossy(SubSeq(buf, 1, rdLen[e]))))
        /\ rdBuf' = [rdBuf EXCEPT
               ![e]["stdout"] = SubSeq(buf, rdLen[e] + 1, Len(buf))]
    /\ rdPc' = [rdPc EXCEPT ![e] = "header"]
    /\ rdLen' = [rdLen EXCEPT ![e] = 0]
    /\ UNCHANGED <<coreVars, lspVars, termVars, dapVars, bgVars, epOut,
                   epOutAll, ptySize, ret, bgRet>>

\* Stdout reader, lines 112-114: the stream ends inside the body;
\* read_exact fails and the thread returns.
LspReaderBodyEof(e) ==
    /\ Quiet
    /\ epKind[e] = "lsp"
    /\ "stdout" \in epThreads[e]
    /\ rdPc[e] = "body"
    /\ Len(rdBuf[e]["stdout"]) < rdLen[e]
    /\ AtEof(e, "stdout")
    /\ RdThreadEnds(e, "stdout")
    /\ UNCHANGED <<lspVars, termVars, dapVars, bgVars, rdVars, ret, bgRet>>

\* BufRead::lines: the line without its LF or CR LF.
StripLineEnd(line) ==
    IF line # <<>> /\ line[Len(line)] = "\n"
    THEN LET l == SubSeq(line, 1, Len(line) - 1) IN
         IF l # <<>> /\ l[Len(l)] = "\r"
         THEN SubSeq(l, 1, Len(l) - 1) ELSE l
    ELSE line

\* Stderr reader, lines 132-142: lines() yields a line, also the last one
\* when the stream ends without a newline; it is emitted as
\* lsp-error:{id}.
LspStderrLine(e) ==
    /\ Quiet
    /\ epKind[e] = "lsp"
    /\ "stderr" \in epThreads[e]
    /\ LET buf == rdBuf[e]["stderr"]
           n == LineEnd(buf, AtEof(e, "stderr"))
       IN  /\ n > 0
           /\ ValidUtf8(SubSeq(buf, 1, n))
           /\ rdEvents' = Append(rdEvents,
                  RdEvent("lsp-error", e, StripLineEnd(SubSeq(buf, 1, n))))
           /\ rdBuf' = [rdBuf EXCEPT
                  ![e]["stderr"] = SubSeq(buf, n + 1, Len(buf))]
    /\ UNCHANGED <<coreVars, lspVars, termVars, dapVars, bgVars, epOut,
                   epOutAll, rdPc, rdLen, ptySize, ret, bgRet>>

\* Stderr reader, line 132: lines() is exhausted; the thread ends.
LspStderrEof(e) ==
    /\ Quiet
    /\ epKind[e] = "lsp"
    /\ "stderr" \in epThreads[e]
    /\ rdBuf[e]["stderr"] = <<>>
    /\ AtEof(e, "stderr")
    /\ RdThreadEnds(e, "stderr")
    /\ UNCHANGED <<lspVars, termVars, dapVars, bgVars, rdVars, ret, bgRet>>

\* Stderr reader, line 143: the line is not UTF-8, lines() yields an
\* error; the loop breaks and the thread ends.
LspStderrErr(e) ==
    /\ Quiet
    /\ epKind[e] = "lsp"
    /\ "stderr" \in epThreads[e]
    /\ LET buf == rdBuf[e]["stderr"]
           n == LineEnd(buf, AtEof(e, "stderr"))
       IN  n > 0 /\ ~ValidUtf8(SubSeq(buf, 1, n))
    /\ RdThreadEnds(e, "stderr")
    /\ UNCHANGED <<lspVars, termVars, dapVars, bgVars, rdVars, ret, bgRet>>

LspRdNext ==
    \/ /\ BytesWritten = 0
       /\ \E e \in Endpoints, script \in StdoutScripts :
              LspChildWrites(e, "stdout", script)
    \/ /\ BytesWritten = 0
       /\ \E e \in Endpoints, script \in StderrScripts :
              LspChildWrites(e, "stderr", script)
    \/ \E e \in Endpoints, s \in Streams :
           \E k \in 1..Len(epOut[e][s]) : RdFill(e, s, k)
    \/ \E e \in Endpoints : LspReaderHeader(e)
    \/ \E e \in Endpoints : LspReaderHeaderEof(e)
    \/ \E e \in Endpoints : LspReaderHeaderErr(e)
    \/ \E e \in Endpoints : LspReaderBody(e)
    \/ \E e \in Endpoints : LspReaderBodyEof(e)
    \/ \E e \in Endpoints : LspStderrLine(e)
    \/ \E e \in Endpoints : LspStderrEof(e)
    \/ \E e \in Endpoints : LspStderrErr(e)

RECURSIVE DecodeFrames(_, _)
\* The messages the stdout reader emits for a stream that it gets whole in
\* one read, entering the header loop with content_length len.
DecodeFrames(buf, len) ==
    IF buf = <<>> THEN <<>>
    ELSE LET n == LineEnd(buf, TRUE)
             trimmed == Trim(SubSeq(buf, 1, n))
             rest == SubSeq(buf, n + 1, Len(buf))
         IN  IF ~ValidUtf8(SubSeq(buf, 1, n)) THEN <<>>
             ELSE IF trimmed # <<>>
             THEN DecodeFrames(rest, HeaderLength(trimmed, len))
             ELSE IF len = 0 THEN DecodeFrames(rest, 0)
             ELSE IF Len(rest) < len THEN <<>>
             ELSE <<Lossy(SubSeq(rest, 1, len))>>
                  \o DecodeFrames(SubSeq(rest, len + 1, Len(rest)), 0)

(***************************************************************************)
(* lsp_start, step by step.                                                *)
(***************************************************************************)

\* The locals of a call of lsp_start: the id, and the child once spawned.
StartCtx(id) == [IdleCtx EXCEPT !.id = id]

\* lsp_start is invoked; it is about to lock the sessions (line 44).
LspStartCall(t, id) ==
    /\ Quiet
    /\ taskPc[t] = "idle"
    /\ taskPc' = [taskPc EXCEPT ![t] = "start_lock"]
    /\ taskCtx' = [taskCtx EXCEPT ![t] = StartCtx(id)]
    /\ UNCHANGED <<nextEp, epKind, epState, epCode, epStream, epWriter,
                   epThreads, epSid, sendLog, lspVars, termVars, dapVars,
                   bgVars, rdVars, ret, bgRet>>

\* A lock() that returns while another caller holds the mutex.
LspStartLockWithoutWaiting(t) ==
    /\ Quiet
    /\ taskPc[t] = "start_lock"
    /\ lspLock' = lspLock \cup {t}
    /\ taskPc' = [taskPc EXCEPT ![t] = "start_check"]
    /\ UNCHANGED <<taskCtx, nextEp, epKind, epState, epCode, epStream,
                   epWriter, epThreads, epSid, sendLog, lspSessions,
                   lspEvents, termVars, dapVars, bgVars, rdVars, ret, bgRet>>

\* lsp_start, line 44: state.sessions.lock().
LspStartLock(t) ==
    /\ Quiet
    /\ taskPc[t] = "start_lock"
    /\ MutexFree(lspLock)
    /\ lspLock' = lspLock \cup {t}
    /\ taskPc' = [taskPc EXCEPT ![t] = "start_check"]
    /\ UNCHANGED <<taskCtx, nextEp, epKind, epState, epCode, epStream,
                   epWriter, epThreads, epSid, sendLog, lspSessions,
                   lspEvents, termVars, dapVars, bgVars, rdVars, ret, bgRet>>

\* lsp_start returns res: the guard of the sessions goes out of scope.
StartReturn(t, res) ==
    /\ taskPc' = [taskPc EXCEPT ![t] = "idle"]
    /\ taskCtx' = [taskCtx EXCEPT ![t] = IdleCtx]
    /\ lspLock' = lspLock \ {t}
    /\ Returns("lsp_start", taskCtx[t].id, res)

\* lsp_start, lines 45-47: contains_key; the error if the id is taken.
LspStartCheck(t) ==
    /\ Quiet
    /\ taskPc[t] = "start_check"
    /\ IF taskCtx[t].id \in DOMAIN lspSessions
       THEN StartReturn(t, "AlreadyExists")
       ELSE /\ taskPc' = [taskPc EXCEPT ![t] = "start_spawn"]
            /\ UNCHANGED <<taskCtx, lspLock, ret, bgRet>>
    /\ UNCHANGED <<nextEp, epKind, epState, epCode, epStream, epWriter,
                   epThreads, epSid, sendLog, lspSessions, lspEvents,
                   termVars, dapVars, bgVars, rdVars>>

\* lsp_start, lines 65-67: Command::spawn starts the child.
LspStartSpawn(t) ==
    /\ Quiet
    /\ taskPc[t] = "start_spawn"
    /\ nextEp <= MaxEndpoints
    /\ LET e == nextEp IN
        /\ nextEp' = e + 1
        /\ epKind' = [epKind EXCEPT ![e] = "lsp"]
        /\ epState' = [epState EXCEPT ![e] = "running"]
        /\ epSid' = [epSid EXCEPT ![e] = taskCtx[t].id]
        /\ taskCtx' = [taskCtx EXCEPT ![t].ep = e]
    /\ taskPc' = [taskPc EXCEPT ![t] = "start_insert"]
    /\ UNCHANGED <<epCode, epStream, epWriter, epThreads, sendLog, lspVars,
                   termVars, dapVars, bgVars, rdVars, ret, bgRet>>

\* lsp_start, lines 65-67: Command::spawn fails.
LspStartSpawnError(t) ==
    /\ Quiet
    /\ taskPc[t] = "start_spawn"
    /\ StartReturn(t, "SpawnFailure")
    /\ UNCHANGED <<nextEp, epKind, epState, epCode, epStream, epWriter,
                   epThreads, epSid, sendLog, lspSessions, lspEvents,
                   termVars, dapVars, bgVars, rdVars>>

\* lsp_start, lines 76-82: sessions.insert.
LspStartInsert(t) ==
    /\ Quiet
    /\ taskPc[t] = "start_insert"
    /\ lspSessions' = MapPut(lspSessions, taskCtx[t].id,
           [child |-> taskCtx[t].ep, stdin |-> taskCtx[t].ep])
    /\ taskPc' = [taskPc EXCEPT ![t] = "start_threads"]
    /\ UNCHANGED <<taskCtx, nextEp, epKind, epState, epCode, epStream,
                   epWriter, epThreads, epSid, sendLog, lspLock, lspEvents,
                   termVars, dapVars, bgVars, rdVars, ret, bgRet>>

\* lsp_start, lines 87-182: the two readers and the exit watcher are
\* started; Ok.
LspStartThreads(t) ==
    /\ Quiet
    /\ taskPc[t] = "start_threads"
    /\ epThreads' = [epThreads EXCEPT
           ![taskCtx[t].ep] = {"stdout", "stderr", "exit"}]
    /\ StartReturn(t, "Ok")
    /\ UNCHANGED <<nextEp, epKind, epState, epCode, epStream, epWriter,
                   epSid, sendLog, lspSessions, lspEvents, termVars, dapVars,
                   bgVars, rdVars>>

LspStartStep(t) ==
    \/ LspStartLock(t)
    \/ LspStartCheck(t)
    \/ LspStartSpawn(t)
    \/ LspStartSpawnError(t)
    \/ LspStartInsert(t)
    \/ LspStartThreads(t)

(***************************************************************************)
(* Specifications.                                                         *)
(***************************************************************************)
\* The language-server sessions alone.
NextLsp == Deliver \/ LspNext
SpecLsp == Init /\ [][NextLsp]_vars

\* The language-server sessions with the scheduling the code relies on:
\* a returned value reaches its caller, a send that has started runs to
\* its return, and a watcher thread, which loops on sleep, lock and poll
\* (lines 154-156), gets the sessions mutex again and again.
LspFairness ==
    /\ WF_vars(Deliver)
    /\ \A t \in Tasks : WF_vars(LspSendStep(t))
    /\ \A w \in Endpoints : SF_vars(LspWatcherPoll(w))
SpecLspFair == Init /\ [][NextLsp]_vars /\ LspFairness

\* The same with a child that may stop draining its stdin: a write to a
\* full pipe blocks until the child reads, so nothing makes the writes of
\* lsp_send (lines 197-204) to a running child happen. A write to a child
\* that is gone fails at once, a caller still gets the stdin mutex when it
\* is free, and the watchers still loop.
LspFairnessBlockedWrite ==
    /\ WF_vars(Deliver)
    /\ \A t \in Tasks : WF_vars(LspSendLockStdin(t))
    /\ \A t \in Tasks :
           WF_vars(/\ taskPc[t] \in {"lsp_header", "lsp_body"}
                   /\ epState[taskCtx[t].ep] # "running"
                   /\ LspSendStep(t))
    /\ \A w \in Endpoints : SF_vars(LspWatcherPoll(w))
SpecLspBlockedWrite == Init /\ [][NextLsp]_vars /\ LspFairnessBlockedWrite

\* The background commands alone.
NextBg == Deliver \/ BgNext
SpecBg == Init /\ [][NextBg]_vars

RdLspIds == {"ls1"}
\* The sends to one language server, with messages of 0, 1, 2 and 10
\* bytes; the message of 2 bytes is one character.
Messages ==
    {<<>>, <<"a">>, <<"C3", "A9">>,
     <<"a", "b", "c", "d", "e", "f", "g", "h", "i", "j">>}
NextLspSend ==
    \/ Deliver
    \/ \E id \in RdLspIds : LspStartOk(id)
    \/ \E t \in Tasks, id \in RdLspIds, msg \in Messages :
           lsp_send(t, id, msg)
    \/ \E t \in Tasks : LspSendStep(t)
    \/ \E e \in Endpoints : LspChildExits(e, 0)
SpecLspSend == Init /\ [][NextLspSend]_vars

\* The calls that start a session, with the stops that empty the
\* registries again.
NextStart ==
    \/ Deliver
    \/ \E id \in LspIds : lsp_start(id)
    \/ \E id \in LspIds : lsp_stop(id)
    \/ \E id \in TermIds : spawn_terminal(id)
    \/ \E id \in DapIds : dap_connect(id)
    \/ dap_disconnect
    \/ exec_background_cmd
    \/ \E p \in BgProcs, code \in ExitCodes : BgProcExits(p, code)
    \/ \E p \in BgProcs : BgTimerElapses(p)
SpecStart == Init /\ [][NextStart]_vars

\* Sends to a language server and to a debug adapter whose far ends go
\* away, with the exit watcher and the reader of the adapter. No session
\* is stopped, so a watcher always finds its session.
NextSendFail ==
    \/ Deliver
    \/ \E id \in RdLspIds : LspStartOk(id)
    \/ \E t \in Tasks, id \in RdLspIds, msg \in Payloads :
           lsp_send(t, id, msg)
    \/ \E t \in Tasks : LspSendStep(t)
    \/ \E e \in Endpoints : LspChildExits(e, 0)
    \/ \E w \in Endpoints : LspWatcherExit(w)
    \/ \E w \in Endpoints : LspWatcherRunning(w)
    \/ \E id \in DapIds : DapConnectOk(id)
    \/ \E t \in Tasks, message \in Payloads : dap_send(t, message)
    \/ \E t \in Tasks : DapSendStep(t)
    \/ \E e \in Endpoints : DapRemoteCloses(e)
    \/ DapRdNext
SpecSendFail == Init /\ [][NextSendFail]_vars

\* Concurrent calls of lsp_start.
NextLspStart ==
    \/ Deliver
    \/ \E t \in Tasks, id \in LspIds : LspStartCall(t, id)
    \/ \E t \in Tasks : LspStartStep(t)
SpecLspStart == Init /\ [][NextLspStart]_vars

\* The reader threads of a language server.
NextLspRd ==
    \/ Deliver
    \/ \E id \in RdLspIds : LspStartOk(id)
    \/ \E e \in Endpoints : LspChildExits(e, 0)
    \/ LspRdNext
SpecLspRd == Init /\ [][NextLspRd]_vars

\* The reader loops: the stdout and stderr readers of a language server,
\* the reader of a debug adapter session and the readers of a background
\* command.
\* Here the language server writes one or two messages with the bodies
\* "a" and "b", or one or two lines of log output.
RdMessages == {LspHeader(<<b>>) \o <<b>> : b \in {"a", "b"}}
RdStdoutScripts == RdMessages \cup {m \o n : m, n \in RdMessages}
RdLines == {<<"e", "\n">>, <<"w", "\r", "\n">>}
RdStderrScripts == RdLines \cup {m \o n : m, n \in RdLines}
NextRd ==
    \/ Deliver
    \/ \E id \in RdLspIds : LspStartOk(id)
    \/ \E e \in Endpoints : LspChildExits(e, 0)
    \/ /\ BytesWritten = 0
       /\ \E e \in Endpoints, script \in RdStdoutScripts :
              LspChildWrites(e, "stdout", script)
    \/ /\ BytesWritten = 0
       /\ \E e \in Endpoints, script \in RdStderrScripts :
              LspChildWrites(e, "stderr", script)
    \/ \E e \in Endpoints, s \in Streams :
           \E k \in 1..Len(epOut[e][s]) : RdFill(e, s, k)
    \/ \E e \in Endpoints : LspReaderHeader(e)
    \/ \E e \in Endpoints : LspReaderHeaderEof(e)
    \/ \E e \in Endpoints : LspReaderBody(e)
    \/ \E e \in Endpoints : LspStderrLine(e)
    \/ \E e \in Endpoints : LspStderrEof(e)
    \/ \E id \in DapIds : DapConnectOk(id)
    \/ \E e \in Endpoints : DapRemoteCloses(e)
    \/ DapRdNext
    \/ BgExecSpawn
    \/ \E p \in BgProcs, s \in Streams, b \in OutBytes : BgProcWrites(p, s, b)
    \/ \E p \in BgProcs : BgProcExits(p, 0)
    \/ \E p \in BgProcs, s \in Streams : BgReaderRead(p, s)
SpecRd == Init /\ [][NextRd]_vars

\* The terminal sessions alone, with their reader threads.
NextTerm == Deliver \/ TermNext \/ TermRdNext
SpecTerm == Init /\ [][NextTerm]_vars

\* The debug-adapter session alone, with its reader threads.
NextDap == Deliver \/ DapNext \/ DapRdNext
SpecDap == Init /\ [][NextDap]_vars

\* The debug-adapter session with the scheduling the code relies on: a
\* returned value reaches its caller, a send that has started runs to its
\* return, and the reader thread (lines 44-56) reads what has arrived and
\* sees the end of the stream. The adapter is not obliged to write or to
\* close.
DapFairness ==
    /\ WF_vars(Deliver)
    /\ \A t \in Tasks : WF_vars(DapSendStep(t))
    /\ \A e \in Endpoints : SF_vars(DapReaderRead(e))
    /\ \A e \in Endpoints : SF_vars(DapReaderTerminates(e))
SpecDapFair == Init /\ [][NextDap]_vars /\ DapFairness

\* The three kinds of session that are written to.
Next == Deliver \/ LspNext \/ TermNext \/ DapNext
Spec == Init /\ [][Next]_vars

(***************************************************************************)
(* Properties.                                                             *)
(***************************************************************************)

\* C1: lsp_start with a server_id that is in the registry returns the
\* already-exists error, and only then; the call spawns no process, starts
\* no thread and leaves the registry, the children and the stdin writers
\* as they were.
C1_StartOfRegisteredIdFails ==
    ret.op = "lsp_start" =>
        /\ (ret.id \in DOMAIN ret.pre.lspSessions) <=> (ret.res = "AlreadyExists")
        /\ ret.res = "AlreadyExists" => World = ret.pre

C1_Witness ==
    /\ ret.op = "lsp_start"
    /\ ret.res = "AlreadyExists"
    /\ ret.id \in DOMAIN lspSessions
    /\ epState[lspSessions[ret.id].child] = "running"

\* C2: the bytes that the sends of one session put on its endpoint never
\* interleave: in the stream received by the endpoint the bytes of each
\* send of lsp_send, write_to_terminal or dap_send form one contiguous
\* range, and the range of a send that returned Ok is the whole of its
\* bytes (for lsp_send the header, the blank line and the payload), so
\* each send lies entirely before or entirely after every other.
C2_SendsNeverInterleave ==
    \A s \in DOMAIN sendLog :
        LET stream == epStream[sendLog[s].ep]
            own == SelectSeq(stream, LAMBDA x : x[1] = s)
        IN  /\ \A i \in DOMAIN stream :
                   (i > 1 /\ stream[i][1] = s /\ stream[i - 1][1] # s)
                       => \A k \in 1..(i - 1) : stream[k][1] # s
            /\ \A e \in Endpoints \ {sendLog[s].ep} :
                   \A i \in DOMAIN epStream[e] : epStream[e][i][1] # s
            /\ sendLog[s].res = "Ok"
                   => [i \in DOMAIN own |-> own[i][2]] = sendLog[s].bytes

C2_Witness ==
    \E s1, s2 \in DOMAIN sendLog :
        /\ s1 < s2
        /\ sendLog[s1].ep = sendLog[s2].ep
        /\ sendLog[s1].task # sendLog[s2].task
        /\ sendLog[s1].res = "Ok"
        /\ sendLog[s2].res = "Ok"
        /\ Len(epStream[sendLog[s1].ep])
               = Len(sendLog[s1].bytes) + Len(sendLog[s2].bytes)

\* C3: a call of exec_background_cmd that returns when its process has
\* exited and its timeout has not elapsed returns status completed; every
\* completed result carries the exit code of the process and leaves the
\* registry as it was; and the id of a completed call is in the registry
\* at no time.
C3_ExitFirstCompletesUnregistered ==
    /\ (bgRet.op = "exec_background_cmd" /\ bgRet.res = "Ok") =>
           LET p == bgRet.pid[1] IN
           /\ (bgProc[p] = "exited" /\ ~bgTimer[p])
                  => bgRet.status = "completed"
           /\ bgRet.status = "completed" =>
                  /\ bgProc[p] = "exited"
                  /\ bgRet.exit_code # None
                  /\ bgRet.exit_code = bgCode[p]
                  /\ bgProcesses = bgRet.pre.bgProcesses
    /\ \A p \in BgProcs :
           bgCall[p] = "completed" => p \notin DOMAIN bgProcesses

C3_Witness ==
    /\ bgRet.op = "exec_background_cmd"
    /\ bgRet.status = "completed"
    /\ bgRet.exit_code = Some(1)
    /\ ~bgTimer[bgRet.pid[1]]
    /\ bgRet.stdout # <<>>
    /\ bgProcesses # EmptyMap

\* C4: once the timeout of a call has elapsed the call can return without
\* the process exiting, and a call that returns on its timeout returns
\* status running, no exit code and the output read so far; at that moment
\* the registry is the registry before the return plus one entry, under
\* the id of the result, that owns the process and is not finished.
C4_TimeoutFirstRegistersRunning ==
    /\ \A p \in BgProcs :
           (Quiet /\ bgCall[p] = "racing" /\ bgTimer[p])
               => ENABLED BgExecTimedOut(p)
    /\ (bgRet.op = "exec_background_cmd" /\ bgRet.res = "Ok"
            /\ bgRet.status # "completed") =>
           LET p == bgRet.pid[1] IN
           /\ bgTimer[p]
           /\ bgRet.status = "running"
           /\ bgRet.exit_code = None
           /\ bgRet.stdout = Lossy(bgBuf[p]["stdout"])
           /\ bgRet.stderr = Lossy(bgBuf[p]["stderr"])
           /\ p \notin DOMAIN bgRet.pre.bgProcesses
           /\ DOMAIN bgProcesses = DOMAIN bgRet.pre.bgProcesses \cup {p}
           /\ \A q \in DOMAIN bgRet.pre.bgProcesses :
                  bgProcesses[q] = bgRet.pre.bgProcesses[q]
           /\ bgProcesses[p].child = Some(p)
           /\ ~bgProcesses[p].is_finished
           /\ bgProcesses[p].exit_code = None

C4_Witness ==
    /\ bgRet.op = "exec_background_cmd"
    /\ bgRet.status = "running"
    /\ bgProc[bgRet.pid[1]] = "running"
    /\ bgRet.stdout # <<>>
    /\ bgPipe[bgRet.pid[1]]["stdout"] # <<>>
    /\ bgRet.pre.bgProcesses # EmptyMap

\* C5: a check_background_cmd of a registered id made after the process
\* has exited by itself returns status completed, the exit code of the
\* process, and as stdout and stderr everything the process wrote.
C5_CheckAfterExitHasFullOutput ==
    (bgRet.op = "check_background_cmd" /\ bgRet.res = "Ok"
         /\ bgProc[bgRet.pid[1]] = "exited") =>
        LET p == bgRet.pid[1] IN
        /\ bgRet.status = "completed"
        /\ bgRet.exit_code = bgCode[p]
        /\ bgRet.stdout = Lossy(Written(p, "stdout"))
        /\ bgRet.stderr = Lossy(Written(p, "stderr"))

\* C6: kill_background_cmd returns Ok and its id is then not in the
\* registry; on an id without an entry it changes nothing; on a registered
\* id it removes that entry alone and the process is not running when it
\* returns; and an id that has been issued and has no entry gets none
\* again, so later checks of it find nothing and later kills change
\* nothing.
C6_KillRemovesForGood ==
    /\ [](bgRet.op = "kill_background_cmd" =>
              LET p == bgRet.pid[1] IN
              /\ bgRet.res = "Ok"
              /\ p \notin DOMAIN bgProcesses
              /\ bgProcesses = bgRet.pre.bgProcesses
              /\ \/ BgWorld = bgRet.pre
                 \/ /\ p \in bgRet.pre.bgKill
                    /\ bgKill = bgRet.pre.bgKill \ {p}
                    /\ bgProc[p] \in {"killed", "exited"}
                    /\ bgProc[p] = "killed"
                           <=> bgRet.pre.bgProc[p] = "running"
                    /\ \A q \in BgProcs \ {p} :
                           bgProc[q] = bgRet.pre.bgProc[q])
    /\ [][/\ \A p \in IssuedPids :
                 p \notin DOMAIN bgProcesses => p \notin DOMAIN bgProcesses'
          /\ \A p \in DOMAIN bgProcesses :
                 p \notin DOMAIN bgProcesses' =>
                     /\ bgProcesses' = MapRemove(bgProcesses, p)
                     /\ p \in bgKill']_vars

C6_Witness ==
    /\ bgRet.op = "kill_background_cmd"
    /\ bgProc[bgRet.pid[1]] = "killed"
    /\ bgProcesses # EmptyMap

\* C7: check_background_cmd fails with NotFound exactly when its id has no
\* entry in the registry, and then the registry, the buffers and the
\* processes are as they were before the call.
C7_CheckUnknownIdNotFound ==
    bgRet.op = "check_background_cmd" =>
        /\ (bgRet.pid[1] \notin DOMAIN bgRet.pre.bgProcesses)
               <=> (bgRet.res = "NotFound")
        /\ bgRet.res = "NotFound" => BgWorld = bgRet.pre

C7_Witness ==
    /\ bgRet.op = "check_background_cmd"
    /\ bgRet.res = "NotFound"
    /\ bgProcesses # EmptyMap
    /\ bgProc[bgRet.pid[1]] = "killed"

\* C8: lsp_send fails with NotFound exactly when its server id is not in
\* the registry, and then no endpoint has received a byte and the registry
\* and everything else are as they were before the call.
C8_SendToUnknownIdNotFound ==
    ret.op = "lsp_send" =>
        /\ (ret.id \notin DOMAIN ret.pre.lspSessions)
               <=> (ret.res = "NotFound")
        /\ ret.res = "NotFound" => World = ret.pre

C8_Witness ==
    /\ ret.op = "lsp_send"
    /\ ret.res = "NotFound"
    /\ lspSessions # EmptyMap
    /\ \E e \in Endpoints : epSid[e] = ret.id

\* C9: lsp_stop returns Ok and its id is then not in the registry; on an id
\* that is not registered it changes nothing, so a second stop leaves the
\* state of the first; on a registered id it removes that session alone.
C9_StopIsIdempotent ==
    ret.op = "lsp_stop" =>
        /\ ret.res = "Ok"
        /\ ret.id \notin DOMAIN lspSessions
        /\ lspSessions = MapRemove(ret.pre.lspSessions, ret.id)
        /\ ret.id \notin DOMAIN ret.pre.lspSessions => World = ret.pre

C9_Witness ==
    /\ ret.op = "lsp_stop"
    /\ ret.id \notin DOMAIN ret.pre.lspSessions
    /\ \E e \in Endpoints : epSid[e] = ret.id /\ epState[e] = "killed"
    /\ lspSessions # EmptyMap

C11_TerminalExitPublishedAndRemoved ==
    \A e \in Endpoints :
        (/\ epKind[e] = "term"
         /\ epState[e] = "exited"
         /\ "reader" \notin epThreads[e])
        => /\ \E i \in DOMAIN rdEvents :
                  /\ rdEvents[i].ep = e
                  /\ rdEvents[i].id = epSid[e]
                  /\ rdEvents[i].type # "terminal-data"
           /\ \A id \in DOMAIN termSessions : termSessions[id].pty # e

\* C12: once the reader thread of a debug-adapter session has ended on the
\* close of the connection, exactly one dap-terminated event has been
\* published for the session, after all of its dap-data events, and the
\* session slot does not hold the session, so that a later dap_send finds
\* no session.
C12_DapCloseTerminatesAndClearsSlot ==
    \A e \in Endpoints :
        (epKind[e] = "dap" /\ "reader" \notin epThreads[e])
        => /\ \E i \in DOMAIN rdEvents :
                  /\ rdEvents[i].ep = e
                  /\ rdEvents[i].type = "dap-terminated"
                  /\ rdEvents[i].id = epSid[e]
                  /\ \A j \in DOMAIN rdEvents :
                         (rdEvents[j].ep = e /\ j # i)
                             => (rdEvents[j].type = "dap-data" /\ j < i)
           /\ (dapSession = None \/ dapSession[1].writer # e)

\* The messages of the lsp-message events of endpoint e, in the order of
\* their emission.
LspFrames(e) ==
    LET own == SelectSeq(rdEvents,
                   LAMBDA ev : ev.ep = e /\ ev.type = "lsp-message")
    IN  [i \in DOMAIN own |-> own[i].data]
IsPrefix(a, b) == Len(a) <= Len(b) /\ SubSeq(b, 1, Len(a)) = a

\* C13: however the stdout stream of a language server is split into
\* underlying reads, the messages its reader has published so far are the
\* first of those it publishes when it gets the whole stream in one read,
\* and all of those once the reader has returned.
C13_FramesIndependentOfReadSplitting ==
    \A e \in Endpoints :
        epKind[e] = "lsp" =>
            LET whole == DecodeFrames(epOutAll[e]["stdout"], 0) IN
            /\ IsPrefix(LspFrames(e), whole)
            /\ "stdout" \notin epThreads[e] => LspFrames(e) = whole
\* A message has been published, and a read has delivered the first byte
\* of the next body without the second.
C13_Witness ==
    \E e \in Endpoints :
        /\ epKind[e] = "lsp"
        /\ LspFrames(e) # <<>>
        /\ rdPc[e] = "body"
        /\ rdBuf[e]["stdout"] = <<"C3">>
        /\ epOut[e]["stdout"] # <<>>

\* The line the stdout reader of e consumes in this step, if it is in its
\* header loop and consumes one.
HeaderLineRead(e) ==
    SubSeq(rdBuf[e]["stdout"], 1,
           Len(rdBuf[e]["stdout"]) - Len(rdBuf'[e]["stdout"]))
ReadsHeaderLine(e) ==
    /\ rdPc[e] = "header"
    /\ Len(rdBuf'[e]["stdout"]) < Len(rdBuf[e]["stdout"])
\* C14: when the stdout reader reaches the blank line of a header block
\* whose length is missing, zero or not a number, it publishes nothing and
\* stays in its header loop, alive, for the next block; a Content-Length
\* line whose value is not a positive number leaves a length of zero; and
\* every block starts with a length of zero, after a skipped block and
\* after a body.
C14_BadLengthBlockSkipped ==
    [][\A e \in Endpoints :
          /\ (ReadsHeaderLine(e) /\ Trim(HeaderLineRead(e)) = <<>>
                 /\ rdLen[e] = 0)
             => /\ rdEvents' = rdEvents
                /\ rdPc'[e] = "header"
                /\ rdLen'[e] = 0
                /\ "stdout" \in epThreads'[e]
          /\ (/\ ReadsHeaderLine(e)
              /\ HasPrefix(Trim(HeaderLineRead(e)), ContentLengthKey)
              /\ \A n \in 1..9 :
                     StripPrefix(Trim(HeaderLineRead(e)), ContentLengthKey)
                         # <<Digit(n)>>)
             => rdLen'[e] = 0
          /\ (rdPc[e] = "body" /\ rdPc'[e] = "header") => rdLen'[e] = 0
      ]_vars
\* The stream began with a block of length zero, and the message after it
\* has been published.
C14_Witness ==
    \E e \in Endpoints :
        /\ epKind[e] = "lsp"
        /\ HasPrefix(epOutAll[e]["stdout"],
                     ContentLengthKey \o <<"0">> \o CRLF \o CRLF)
        /\ LspFrames(e) = <<Lossy(<<"C3", "A9">>)>>

\* The lines of the lsp-error events of endpoint e, in the order of their
\* emission.
LspErrorLines(e) ==
    LET own == SelectSeq(rdEvents,
                   LAMBDA ev : ev.ep = e /\ ev.type = "lsp-error")
    IN  [i \in DOMAIN own |-> own[i].data]
\* The number of newlines of a stream.
Newlines(stream) == Cardinality({i \in DOMAIN stream : stream[i] = "\n"})
\* C15: the stderr reader of a language server publishes one line per
\* newline of the stream, never more: nothing for what follows the last
\* newline.
C15_NoFrameForPartialLine ==
    \A e \in Endpoints :
        epKind[e] = "lsp"
            => Len(LspErrorLines(e)) <= Newlines(epOutAll[e]["stderr"])

\* The decimal numerals of one and two digits.
Numerals ==
    {<<Digit(a)>> : a \in 0..9}
        \cup {<<Digit(a), Digit(b)>> : a \in 1..9, b \in 0..9}
\* C16: when lsp_send returns Ok, the bytes received by the write side of
\* the session end with the bytes of this send: "Content-Length: ", the
\* decimal numeral of the byte length of the message, CR LF CR LF, and the
\* message; the send has put no other byte there or anywhere else.
C16_SendAppendsHeaderAndMessage ==
    [][\A t \in Tasks :
          (/\ taskPc[t] = "lsp_body" /\ taskPc'[t] = "idle"
           /\ ret'.op = "lsp_send" /\ ret'.res = "Ok")
          => LET c == taskCtx[t]
                 stream == epStream'[c.ep]
                 own == SelectSeq(stream, LAMBDA x : x[1] = c.tag)
             IN  /\ \E d \in Numerals :
                        /\ DigitsValue(d) = Len(c.msg)
                        /\ own = Tagged(c.tag,
                               ContentLengthKey \o d \o CRLF \o CRLF \o c.msg)
                 /\ Len(stream) >= Len(own)
                 /\ SubSeq(stream, Len(stream) - Len(own) + 1, Len(stream))
                        = own
                 /\ \A e \in Endpoints \ {c.ep} :
                        \A i \in DOMAIN epStream'[e] :
                            epStream'[e][i][1] # c.tag
      ]_vars
\* A send of the message of ten bytes has returned Ok.
C16_Witness ==
    /\ ret.op = "lsp_send"
    /\ ret.res = "Ok"
    /\ \E s \in DOMAIN sendLog :
           /\ sendLog[s].res = "Ok"
           /\ Len(epStream[sendLog[s].ep]) >= 32
           /\ epStream[sendLog[s].ep][Len(epStream[sendLog[s].ep])]
                  = <<s, "j">>

\* C17: a spawn_terminal of an id that is registered does not succeed (it
\* fails with AlreadyExists, or before that with a failure of the pty or of
\* the shell), the session registered first stays as it is, and no two
\* reader threads are alive under one id.
C17_SpawnOfRegisteredIdFails ==
    /\ (ret.op = "spawn_terminal" /\ ret.id \in DOMAIN ret.pre.termSessions)
           => /\ ret.res \in {"AlreadyExists", "SpawnFailure"}
              /\ termSessions = ret.pre.termSessions
    /\ \A e1, e2 \in Endpoints :
           (/\ e1 # e2
            /\ epKind[e1] = "term" /\ epKind[e2] = "term"
            /\ "reader" \in epThreads[e1] /\ "reader" \in epThreads[e2])
           => epSid[e1] # epSid[e2]

\* C18: a write_to_terminal or a resize_terminal of an id that is not
\* registered fails with NotFound, and leaves the sessions as they are.
C18_AbsentTerminalIdNotFound ==
    (/\ ret.op \in {"write_to_terminal", "resize_terminal"}
     /\ ret.id \notin DOMAIN ret.pre.termSessions)
    => /\ ret.res = "NotFound"
       /\ World = ret.pre

\* The children spawned by lsp_start under id.
LspChildrenOf(id) == {e \in Endpoints : epKind[e] = "lsp" /\ epSid[e] = id}
\* C19: of the concurrent calls of lsp_start with one id that was not
\* registered, one registers its child and returns Ok and every other
\* returns AlreadyExists: the sessions mutex has one holder at a time, one
\* child at most is spawned under the id, a call that returns Ok has
\* registered that child with its threads, and a call that returns
\* AlreadyExists has spawned nothing and finds the one child registered.
C19_ConcurrentStartsRegisterOnce ==
    /\ Cardinality(lspLock) <= 1
    /\ \A id \in LspIds : Cardinality(LspChildrenOf(id)) <= 1
    /\ (ret.op = "lsp_start" /\ ret.res \in {"Ok", "AlreadyExists"})
           => /\ ret.id \in DOMAIN lspSessions
              /\ LspChildrenOf(ret.id) = {lspSessions[ret.id].child}
              /\ epThreads[lspSessions[ret.id].child]
                     = {"stdout", "stderr", "exit"}
    /\ (ret.op = "lsp_start" /\ ret.res = "AlreadyExists")
           => /\ ret.id \in DOMAIN ret.pre.lspSessions
              /\ lspSessions = ret.pre.lspSessions
              /\ nextEp = ret.pre.nextEp
\* Two calls with the same id are in progress: one has just returned Ok,
\* the other is waiting for the sessions mutex.
C19_Witness ==
    \E t \in Tasks :
        /\ ret.op = "lsp_start"
        /\ ret.res = "Ok"
        /\ taskPc[t] = "start_lock"
        /\ taskCtx[t].id = ret.id

\* The bytes of stream s of endpoint e that no reader step has consumed.
Unread(e, s) == rdBuf[e][s] \o epOut[e][s]
\* The number of bytes of it that this step consumes.
Consumed(e, s) ==
    Len(Unread(e, s)) + Len(epOutAll'[e][s]) - Len(epOutAll[e][s])
        - Len(Unread(e, s)')
IsSuffix(a, b) ==
    Len(a) <= Len(b) /\ SubSeq(b, Len(b) - Len(a) + 1, Len(b)) = a
\* C20: a reader loop publishes in the order of the stream. Every step
\* leaves the events published so far as they are and adds at most one,
\* at the end; what a step consumes is the head of the unread bytes of its
\* stream, so the unread bytes are always the tail of what was written; a
\* dap-data or lsp-message event carries the bytes consumed by the step
\* that publishes it, an lsp-error event the line consumed; and a reader
\* of a background command moves the head of the pipe to the end of the
\* output buffer.
C20_FramesInStreamOrder ==
    [][/\ IsPrefix(rdEvents, rdEvents')
       /\ Len(rdEvents') <= Len(rdEvents) + 1
       /\ \A e \in Endpoints, s \in Streams :
              /\ Consumed(e, s) \in 0..Len(Unread(e, s))
              /\ IsPrefix(SubSeq(Unread(e, s), Consumed(e, s) + 1,
                                 Len(Unread(e, s))),
                          Unread(e, s)')
              /\ IsSuffix(Unread(e, s)', epOutAll'[e][s])
       /\ Len(rdEvents') > Len(rdEvents) =>
              \A o \in Endpoints :
                  rdEvents'[Len(rdEvents')].ep = o =>
                  LET ev == rdEvents'[Len(rdEvents')]
                      taken(s) == SubSeq(Unread(o, s), 1, Consumed(o, s))
                  IN  /\ ev.type \in {"dap-data", "lsp-message"}
                             => /\ ev.data = Lossy(taken("stdout"))
                                /\ taken("stdout") # <<>>
                      /\ ev.type = "lsp-error"
                             => /\ ev.data = StripLineEnd(taken("stderr"))
                                /\ taken("stderr") # <<>>
                      /\ \A e \in Endpoints, s \in Streams :
                             (e # o \/ ev.type = "dap-terminated"
                                  \/ (s = "stdout") = (ev.type = "lsp-error"))
                                 => Consumed(e, s) = 0
       /\ \A p \in BgProcs, s \in Streams :
              \E k \in 0..Len(bgPipe[p][s]) :
                  /\ bgBuf'[p][s] = bgBuf[p][s] \o SubSeq(bgPipe[p][s], 1, k)
                  /\ IsPrefix(SubSeq(bgPipe[p][s], k + 1, Len(bgPipe[p][s])),
                              bgPipe'[p][s])
      ]_vars
\* The two messages of a language server, with the bodies "a" and "b",
\* have been published.
C20_Witness ==
    \E e \in Endpoints :
        /\ epKind[e] = "lsp"
        /\ LspFrames(e) = <<Lossy(<<"a">>), Lossy(<<"b">>)>>

\* C21: a start call (lsp_start, dap_connect, spawn_terminal,
\* exec_background_cmd) that fails to spawn its process or to open its
\* socket returns the error and leaves everything as it was before the
\* call: the registries, the endpoints and the threads and tasks.
C21_FailedStartChangesNothing ==
    /\ (/\ ret.op \in {"lsp_start", "dap_connect", "spawn_terminal"}
        /\ ret.res = "SpawnFailure")
           => World = ret.pre
    /\ (bgRet.op = "exec_background_cmd" /\ bgRet.res = "SpawnFailure")
           => /\ BgWorld = bgRet.pre
              /\ bgRet.pid = None
\* A dap_connect has failed while a session was in the slot.
C21_Witness ==
    /\ ret.op = "dap_connect"
    /\ ret.res = "SpawnFailure"
    /\ ret.pre.dapSession # None

\* C22: a send (lsp_send, dap_send) whose write fails returns the I/O
\* error and changes nothing but its own locks: the sessions stay
\* registered, the reader threads and the exit watchers stay alive, what
\* the readers hold and have published stays, and no endpoint changes
\* state.
C22_FailedSendChangesNothingElse ==
    (ret.op \in {"lsp_send", "dap_send"} /\ ret.res = "IoError")
    => /\ lspSessions = ret.pre.lspSessions
       /\ dapSession = ret.pre.dapSession
       /\ epThreads = ret.pre.epThreads
       /\ epState = ret.pre.epState
       /\ epStream = ret.pre.epStream
       /\ lspEvents = ret.pre.lspEvents
       /\ rdVars = ret.pre.rd
\* A dap_send has failed; the session is in the slot, and its reader is
\* alive with data to publish.
C22_Witness ==
    /\ ret.op = "dap_send"
    /\ ret.res = "IoError"
    /\ dapSession # None
    /\ "reader" \in epThreads[dapSession[1].writer]
    /\ epOut[dapSession[1].writer]["stdout"] # <<>>

\* C23: no caller holds the sessions mutex of the language servers while
\* it writes to an endpoint: a task that is at the write of the header or
\* of the body of lsp_send does not hold the mutex.
C23_RegistryLockNotHeldDuringWrite ==
    \A t \in Tasks :
        taskPc[t] \in {"lsp_header", "lsp_body"} => t \notin lspLock

\* C24: a send that is blocked in a write to the endpoint of one session,
\* whose child runs and does not drain its input, blocks its caller only:
\* the exit watcher of every other session still completes its poll, so a
\* session whose child has exited is eventually removed.
C24_BlockedSendBlocksOnlyItsCaller ==
    \A w \in Endpoints : \A t \in Tasks :
        (/\ taskPc[t] \in {"lsp_header", "lsp_body"}
         /\ epState[taskCtx[t].ep] = "running"
         /\ taskCtx[t].ep # w
         /\ epState[w] = "exited"
         /\ \E id \in DOMAIN lspSessions : lspSessions[id].child = w)
            ~> ~(\E id \in DOMAIN lspSessions : lspSessions[id].child = w)

\* C25: a watcher whose session has been removed by lsp_stop ends at its
\* next poll without publishing an event and without changing the
\* registry.
C25_WatcherOfStoppedSessionEndsSilently ==
    [][\A w \in Endpoints :
           (/\ "exit" \in epThreads[w]
            /\ \A id \in DOMAIN lspSessions : lspSessions[id].child # w
            /\ "exit" \notin epThreads'[w])
           => /\ lspEvents' = lspEvents
              /\ lspSessions' = lspSessions]_vars

\* The live exit watchers that look up the server id: each of them polls
\* the session registered under it (lsp.rs, line 157).
WatchersOf(id) ==
    {w \in Endpoints : "exit" \in epThreads[w] /\ epSid[w] = id}

\* C26: each registered session is polled by exactly one exit watcher, the
\* one started by the lsp_start that registered it; the watcher of a
\* session removed by lsp_stop does not poll a later session registered
\* under the same id.
C26_OneWatcherPerSession ==
    \A id \in DOMAIN lspSessions :
        WatchersOf(id) = {lspSessions[id].child}

\* C27: every removal of a session from a registry, by the closing of its
\* endpoint or by lsp_stop or dap_disconnect, comes with a termination
\* event for the id of the session.
C27_RemovalPublishesTermination ==
    [][/\ \A id \in DOMAIN lspSessions :
              id \notin DOMAIN lspSessions' =>
                  \E i \in DOMAIN lspEvents' \ DOMAIN lspEvents :
                      /\ lspEvents'[i].type = "lsp-exit"
                      /\ lspEvents'[i].server_id = id
       /\ (dapSession # None /\ dapSession' = None) =>
              \E i \in DOMAIN rdEvents' \ DOMAIN rdEvents :
                  rdEvents'[i].type = "dap-terminated"]_vars

\* A session is registered under the id.
Registered(id) ==
    \/ id \in DOMAIN lspSessions
    \/ dapSession # None /\ dapSession[1].id = id

\* C28: once a session has left its registry none of its reader loops is
\* live: no data event that carries an id is published while no session is
\* registered under that id.
C28_NoEventAfterRemoval ==
    [][\A id \in LspIds \cup DapIds :
           (\E i \in DOMAIN rdEvents' \ DOMAIN rdEvents :
                /\ rdEvents'[i].id = id
                /\ rdEvents'[i].type \in {"lsp-message", "lsp-error",
                                          "dap-data"})
               => Registered(id)]_vars

\* C29: after dap_disconnect has returned, the reader thread of the
\* session it removed sees the connection closed and ends, without the
\* adapter closing its side.
C29_DisconnectEndsReader ==
    \A e \in Endpoints :
        (/\ ret.op = "dap_disconnect"
         /\ ret.pre.dapSession # None
         /\ ret.pre.dapSession[1].writer = e
         /\ "reader" \in epThreads[e])
            ~> ("reader" \notin epThreads[e])

\* C30: when the stdout reader of a language server has stopped at the end
\* of the stream or at a read error, the session is torn down even if the
\* process is still running: it is not in the registry and a termination
\* event has been published under its id.
C30_ReaderEndTearsSessionDown ==
    \A e \in Endpoints :
        (/\ epKind[e] = "lsp"
         /\ epState[e] = "running"
         /\ "stdout" \notin epThreads[e])
        => /\ \A id \in DOMAIN lspSessions : lspSessions[id].child # e
           /\ \E i \in DOMAIN lspEvents : lspEvents[i].server_id = epSid[e]

\* The units with a malformed length header: a header block without a
\* length, with length 0 or with a length that is no integer, alone or with
\* two body bytes after it.
MalformedUnits ==
    {h \o b : h \in {CRLF, ContentLengthKey \o <<"0">> \o CRLF \o CRLF,
                     ContentLengthKey \o <<"-", "1">> \o CRLF \o CRLF},
              b \in {<<>>, <<"C3", "A9">>}}

\* C31: after a unit with a malformed length header, with or without body
\* bytes, the stdout reader skips that unit only: the well-formed frame
\* that follows it in the stream is decoded with its body and published.
C31_MalformedUnitSkippedAlone ==
    \A e \in Endpoints : \A u \in MalformedUnits :
        (/\ epKind[e] = "lsp"
         /\ epOutAll[e]["stdout"]
                = u \o LspHeader(<<"C3", "A9">>) \o <<"C3", "A9">>
         /\ "stdout" \notin epThreads[e])
        => \E i \in DOMAIN rdEvents :
               /\ rdEvents[i].type = "lsp-message"
               /\ rdEvents[i].ep = e
               /\ rdEvents[i].data = Lossy(<<"C3", "A9">>)

\* C32: once a check_background_cmd of an id has returned completed (the
\* entry is marked is_finished), a later check of that id returns
\* completed with the same exit code and the same snapshot: the entry is
\* not changed again, and the buffers, whose decoding a check returns, do
\* not change either.
C32_CompletedIsFinal ==
    [][\A pid \in DOMAIN bgProcesses :
           bgProcesses[pid].is_finished =>
               /\ pid \in DOMAIN bgProcesses'
                      => bgProcesses'[pid] = bgProcesses[pid]
               /\ (/\ bgRet'.op = "check_background_cmd"
                   /\ bgRet'.pid = Some(pid))
                      => /\ bgRet'.status = "completed"
                         /\ bgRet'.exit_code = bgProcesses[pid].exit_code
               /\ bgBuf'[pid] = bgBuf[pid]]_vars

\* C33: the snapshots of one session are append-only. A poll of a
\* registered session can be made before and after any step of a reader
\* task, and returns the decoding of the buffers as they are at that
\* moment, so the decoding of a buffer before a step is a prefix of its
\* decoding after the step.
C33_SnapshotsGrowByAppending ==
    [][\A pid \in DOMAIN bgProcesses : \A s \in Streams :
           IsPrefix(Lossy(bgBuf[pid][s]), Lossy(bgBuf'[pid][s]))]_vars

\* C34: an entry of the background-process registry is never removed
\* automatically: a check removes nothing, and an entry leaves the
\* registry only in a kill_background_cmd with its id, also after its
\* process has finished.
C34_OnlyKillRemoves ==
    [][/\ bgRet'.op = "check_background_cmd"
              => DOMAIN bgProcesses' = DOMAIN bgProcesses
       /\ \A pid \in DOMAIN bgProcesses :
              pid \notin DOMAIN bgProcesses'
                  => /\ bgProcesses' = MapRemove(bgProcesses, pid)
                     /\ \/ bgKill' = bgKill \cup {bgProcesses[pid].child[1]}
                        \/ /\ bgRet'.op = "kill_background_cmd"
                           /\ bgRet'.pid = Some(pid)]_vars

C34_Witness ==
    /\ bgRet.op = "check_background_cmd"
    /\ bgRet.status = "completed"
    /\ bgRet.pid # None
    /\ bgRet.pid[1] \in DOMAIN bgProcesses
    /\ bgRet.pre.bgProcesses[bgRet.pid[1]].is_finished
    /\ bgProc[bgRet.pid[1]] = "exited"

\* The bytes on the write side of endpoint e.
StreamBytes(e) == [i \in DOMAIN epStream[e] |-> epStream[e][i][2]]
\* The payload of a send, from the bytes it set out to write.
PayloadOf(bytes) == CHOOSE msg \in Messages : bytes = LspHeader(msg) \o msg
RECURSIVE SentFrames(_, _)
\* The non-empty payloads of the first n sends that returned Ok on
\* endpoint e, as the receiver sees them, in the order of the sends.
SentFrames(e, n) ==
    IF n = 0 THEN <<>>
    ELSE SentFrames(e, n - 1) \o
         (IF /\ sendLog[n].ep = e
             /\ sendLog[n].res = "Ok"
             /\ PayloadOf(sendLog[n].bytes) # <<>>
          THEN <<Lossy(PayloadOf(sendLog[n].bytes))>> ELSE <<>>)

\* C35: a peer that applies the decoding of the stdout reader to the bytes
\* the sends of a session have written decodes the non-empty payloads of
\* the sends, in the order sent; an empty payload is written with length 0
\* and decoded as no frame.
C35_SendThenDecodeIsIdentity ==
    \A e \in Endpoints :
        (/\ epKind[e] = "lsp"
         /\ \A n \in DOMAIN sendLog :
                sendLog[n].ep = e => sendLog[n].res # "pending")
        => DecodeFrames(StreamBytes(e), 0) = SentFrames(e, Len(sendLog))

C35_Witness ==
    /\ Len(sendLog) = 2
    /\ sendLog[1].ep = sendLog[2].ep
    /\ sendLog[1].res = "Ok"
    /\ sendLog[2].res = "Ok"
    /\ PayloadOf(sendLog[1].bytes) = <<>>
    /\ PayloadOf(sendLog[2].bytes) = <<"C3", "A9">>
    /\ DecodeFrames(StreamBytes(sendLog[1].ep), 0) = <<Lossy(<<"C3", "A9">>)>>

\* The children of the sessions of a registry.
RegisteredChildren(sessions) ==
    {sessions[id].child : id \in DOMAIN sessions}

\* C36: at most one exit event is published for the session of each
\* successful lsp_start, whatever the watchers, lsp_stop and later
\* lsp_start calls with the same id do: an exit event for a child is
\* published only in the step that takes the session of that child out of
\* the registry, that step is not an lsp_stop, and a session that has left
\* the registry does not come back.
C36_AtMostOneExitEvent ==
    /\ [](\A c \in Endpoints :
              Cardinality({i \in DOMAIN lspEvents : lspEvents[i].child = c})
                  <= 1)
    /\ [][\A c \in Endpoints :
              /\ (\E i \in DOMAIN lspEvents' \ DOMAIN lspEvents :
                      lspEvents'[i].child = c)
                 => /\ c \in RegisteredChildren(lspSessions)
                    /\ c \notin RegisteredChildren(lspSessions')
                    /\ ret'.op # "lsp_stop"
              /\ (epKind[c] = "lsp" /\ c \notin RegisteredChildren(lspSessions))
                 => c \notin RegisteredChildren(lspSessions')]_vars

\* The watcher of a stopped session has published the exit of the later
\* session registered under the same id, whose own watcher is still live.
C36_Witness ==
    \E w, c \in Endpoints :
        /\ w # c
        /\ epState[w] = "killed"
        /\ epSid[w] = epSid[c]
        /\ "exit" \notin epThreads[w]
        /\ "exit" \in epThreads[c]
        /\ \E i \in DOMAIN lspEvents : lspEvents[i].child = c
        /\ c \notin RegisteredChildren(lspSessions)

\* The holders of the registry mutex of the sessions of kind k.
RegistryLock(k) ==
    IF k = "lsp" THEN lspLock ELSE IF k = "term" THEN termLock ELSE dapLock
\* Task t holds the mutex of some writer.
HoldsWriter(t) == \E e \in Endpoints : t \in epWriter[e]

C38_FailedSendWritesAllOrNothing ==
    \A n \in DOMAIN sendLog :
        (sendLog[n].kind = "lsp" /\ sendLog[n].res = "IoError")
        => LET own == SelectSeq(epStream[sendLog[n].ep],
                                LAMBDA x : x[1] = n)
           IN  [i \in DOMAIN own |-> own[i][2]] \in {<<>>, sendLog[n].bytes}

\* C39: every entry of the background-process registry holds its child,
\* and has an exit code only if it is marked is_finished; no
\* check_background_cmd returns the invalid-state error.
C39_EntriesAreWellFormed ==
    /\ \A pid \in DOMAIN bgProcesses :
           /\ bgProcesses[pid].child # None
           /\ bgProcesses[pid].exit_code # None => bgProcesses[pid].is_finished
    /\ bgRet.res # "InvalidState"

C39_Witness ==
    \E pid \in DOMAIN bgProcesses :
        /\ bgProcesses[pid].is_finished
        /\ bgProcesses[pid].exit_code = Some(1)
        /\ bgProcesses[pid].child = Some(pid)
        /\ bgKill # {}

====
